---- MODULE Spec2Model ----
(***************************************************************************)
(* CTCP printable-ASCII codec of aggligator-util (src/ctcp.rs): the byte   *)
(* primitives, the length-prefix codec, the frame codec and the Sink /     *)
(* Stream adaptors CtcpTx and CtcpRx.                                      *)
(*                                                                         *)
(* A u32 does not fit the model checker's integers, so a u32 is a record   *)
(* [hi, lo] of two 16-bit limbs; every u32 operation of the source is      *)
(* computed on the limbs with its full 32-bit (and u64 intermediate)       *)
(* width.  Byte slices are sequences, index i of the source is i + 1.      *)
(***************************************************************************)
EXTENDS Integers, Sequences, FiniteSets, TLC

\* ------------------------------------------------------------------------
\* Program constants
\* ------------------------------------------------------------------------
HEADER_TSS == 2
HEADER_MSS == HEADER_TSS + 1
HEADER_XSS == HEADER_MSS + 1
HEADER_MSS_MOD == (94 * 94 * 94) - 1
PRINTABLE_START == 32
PRINTABLE_END == 126
\* a key whose remainder modulo HEADER_MSS_MOD has one base-94 digit
OneDigitKey == 70 + 7
DEFAULT_KEY == 154543927
BASE94 == 94
BASE93 == BASE94 - 1
\* the frame limit with the "+ 1" forgotten
MaxFrameU16 == 65536 - 1

\* u16::MAX as usize + 1, the largest frame CtcpTx::encode accepts
MAX_FRAME == 65535 + 1

\* ------------------------------------------------------------------------
\* Machine integers
\* ------------------------------------------------------------------------
W16 == 65536

U32(h, l) == [hi |-> h, lo |-> l]

\* a number below 2^31 as a u32
ToU32(n) == U32(n \div W16, n % W16)

\* a function on 1..n, as a sequence
AsBytes(f) == f \o << >>

RECURSIVE XorBits(_, _)
\* bitwise exclusive or of two naturals, bit by bit
XorBits(a, b) ==
    IF a = 0 THEN b
    ELSE IF b = 0 THEN a
    ELSE 2 * XorBits(a \div 2, b \div 2) + (((a % 2) + (b % 2)) % 2)

\* the exclusive or of two 4-bit and of two 8-bit values, tabulated
XorNibbleTable == AsBytes([i \in 1..256 |-> XorBits((i - 1) \div 16, (i - 1) % 16)])
XorNibble(a, b) == XorNibbleTable[(a * 16) + b + 1]
XorByteTable ==
    AsBytes([i \in 1..65536 |->
                LET a == (i - 1) \div 256
                    b == (i - 1) % 256
                IN (16 * XorNibble(a \div 16, b \div 16)) + XorNibble(a % 16, b % 16)])
XorByte(a, b) == XorByteTable[(a * 256) + b + 1]

RECURSIVE Xor(_, _)
\* bitwise exclusive or of two naturals, byte by byte
Xor(a, b) ==
    IF a < 256 /\ b < 256 THEN XorByte(a, b)
    ELSE (256 * Xor(a \div 256, b \div 256)) + XorByte(a % 256, b % 256)

\* low bit of a byte
LowBit(b) == b % 2

\* u8::wrapping_add / u8::wrapping_sub
wrapping_add(a, b) == (a + b) % 256
wrapping_sub(a, b) == (a + 256 - b) % 256

\* (a * b) >> 16 and (a * b) & 0xffff for a, b < 2^16, without leaving 31 bits
Mul16Hi(a, b) == (((a \div 256) * b) + (((a % 256) * b) \div 256)) \div 256
Mul16Lo(a, b) == (((((a \div 256) * b) % 256) * 256) + ((a % 256) * b)) % W16

\* key ^ (x as u32) for x < 2^16
XorU32(key, x) == U32(key.hi, Xor(key.lo, x))

\* key % HEADER_MSS_MOD
ModM(key) == ((((key.hi * 256) % HEADER_MSS_MOD) * 256) + key.lo) % HEADER_MSS_MOD

\* ((value as u64 * modulus as u64) >> 32) as u32, for modulus <= 2^16
fast_mod_u32(value, modulus) ==
    IF modulus = W16 THEN value.hi
    ELSE Mul16Hi(value.hi, modulus)
         + ((Mul16Lo(value.hi, modulus) + Mul16Hi(value.lo, modulus)) \div W16)

\* random_range(rng, min, max) where raw is the value rng.next_u32() returned
random_range(raw, min, max) == wrapping_add(min, fast_mod_u32(raw, max - min) % 256)

\* ------------------------------------------------------------------------
\* Byte primitives
\* ------------------------------------------------------------------------
mask_key(key) == key.lo % 256

mask_bytes(data, key) ==
    IF key = 0 THEN data
    ELSE AsBytes([i \in 1..Len(data) |-> Xor(data[i], key)])

\* ptr::swap(ptr.add(i), ptr.add(j)), i and j being the source's indices
\* (exchanging two equal bytes leaves the slice as it is)
SwapAt(data, i, j) ==
    IF data[i + 1] = data[j + 1] THEN data
    ELSE [data EXCEPT ![i + 1] = data[j + 1], ![j + 1] = data[i + 1]]

\* the index ((i as u32) ^ key) % len, for len < 2^15
ShuffleIndexModulo(i, key, len) ==
    ((((key.hi % len) * (W16 % len)) % len) + (Xor(key.lo, i) % len)) % len

\* fast_mod_u32((i as u32) ^ key, len as u32); for len = 2^16 this is the
\* high half of the value, which i < 2^16 leaves as the key has it
ShuffleIndex(i, key, len) ==
    IF len = W16 THEN key.hi ELSE fast_mod_u32(XorU32(key, i), len)

RECURSIVE ShuffleRange(_, _, _, _, _)
\* the swaps of shuffle_bytes for i = from .. to - 1, ascending; the lower
\* half of the range is done before the upper half starts
ShuffleRange(data, key, len, from, to) ==
    IF to <= from THEN data
    ELSE IF to = from + 1
         THEN SwapAt(data, from, ShuffleIndex(from, key, len))
    ELSE LET mid == (from + to) \div 2
             lower == ShuffleRange(data, key, len, from, mid)
         IN IF lower[1] >= 0 THEN ShuffleRange(lower, key, len, mid, to) ELSE lower

shuffle_bytes(data, key) ==
    IF Len(data) <= 1 THEN data ELSE ShuffleRange(data, key, Len(data), 0, Len(data))

RECURSIVE UnshuffleRange(_, _, _, _, _)
\* the swaps of unshuffle_bytes for i = to - 1 .. from, descending; the upper
\* half of the range is done before the lower half starts
UnshuffleRange(data, key, len, from, to) ==
    IF to <= from THEN data
    ELSE IF to = from + 1
         THEN SwapAt(data, from, ShuffleIndex(from, key, len))
    ELSE LET mid == (from + to) \div 2
             upper == UnshuffleRange(data, key, len, mid, to)
         IN IF upper[1] >= 0 THEN UnshuffleRange(upper, key, len, from, mid) ELSE upper

\* unshuffle_bytes making its swaps in ascending order
UnshuffleAscending(data, key) ==
    IF Len(data) <= 1 THEN data ELSE ShuffleRange(data, key, Len(data), 0, Len(data))

unshuffle_bytes(data, key) ==
    IF Len(data) <= 1 THEN data ELSE UnshuffleRange(data, key, Len(data), 0, Len(data))

delta_encode_in_place(data, key) ==
    AsBytes([i \in 1..Len(data) |->
                IF i = 1 THEN wrapping_sub(data[1], key)
                ELSE wrapping_sub(data[i], data[i - 1])])

RECURSIVE DeltaDecodeRange(_, _, _, _)
\* the decoded bytes of positions from..to, current being the running value
\* before position from
DeltaDecodeRange(data, from, to, current) ==
    IF to < from THEN << >>
    ELSE IF to = from THEN << wrapping_add(current, data[from]) >>
    ELSE LET mid == (from + to) \div 2
             left == DeltaDecodeRange(data, from, mid, current)
         IN left \o DeltaDecodeRange(data, mid + 1, to, left[Len(left)])

\* delta_decode_in_place that leaves the key out of the first byte
DeltaDecodeNoKey(data, key) ==
    IF Len(data) = 0 THEN data
    ELSE DeltaDecodeRange(data, 1, Len(data), 0)

delta_decode_in_place(data, key) ==
    IF Len(data) = 0 THEN data
    ELSE DeltaDecodeRange(data, 1, Len(data), key)

\* Base94Symbol with the escape symbol one too high (the "- 1" forgotten)
Base94SymbolHighEscape(byte, key) ==
    LET adjusted == wrapping_sub(byte, key)
    IN IF adjusted >= BASE93
       THEN << 32 + (adjusted \div BASE93) + BASE93, 32 + (adjusted % BASE93) >>
       ELSE << 32 + adjusted >>

\* an encoder that writes three symbols for every byte
Base94SymbolThreeWide(byte, key) ==
    LET adjusted == wrapping_sub(byte, key)
    IN << 32 + BASE93, 32 + (adjusted \div BASE93), 32 + (adjusted % BASE93) >>

\* the one or two symbols base94_encode_into writes for one byte
Base94Symbol(byte, key) ==
    LET adjusted == wrapping_sub(byte, key)
    IN IF adjusted >= BASE93
       THEN << 32 + ((adjusted \div BASE93) - 1) + BASE93, 32 + (adjusted % BASE93) >>
       ELSE << 32 + adjusted >>

RECURSIVE Base94EncodeRange(_, _, _, _)
Base94EncodeRange(data, key, from, to) ==
    IF to < from THEN << >>
    ELSE IF to = from THEN Base94Symbol(data[from], key)
    ELSE LET mid == (from + to) \div 2
         IN Base94EncodeRange(data, key, from, mid)
            \o Base94EncodeRange(data, key, mid + 1, to)

base94_encode_into(data, key) == Base94EncodeRange(data, key, 1, Len(data))

\* one pass of the validation loop of base94_decode_into at data[index]: the
\* error kind if it rejects the symbol, else "More" with the index and the
\* escape count of the next pass
Base94ValidateStep(data, index, escapes) ==
    LET raw == data[index]
    IN IF raw < PRINTABLE_START \/ raw > PRINTABLE_END
       THEN [kind |-> "InvalidData", escapes |-> escapes, index |-> index]
       ELSE IF raw - 32 >= BASE93
       THEN IF index + 1 > Len(data)
            THEN [kind |-> "UnexpectedEof", escapes |-> escapes, index |-> index]
            ELSE LET next_raw == data[index + 1]
                     value == raw - 32
                     next == next_raw - 32
                 IN IF next_raw < PRINTABLE_START \/ next_raw > PRINTABLE_END
                    THEN [kind |-> "InvalidData", escapes |-> escapes, index |-> index]
                    ELSE IF next >= BASE93
                    THEN [kind |-> "InvalidData", escapes |-> escapes, index |-> index]
                    ELSE IF ((value - BASE93 + 1) * BASE93) + next > 255
                    THEN [kind |-> "InvalidData", escapes |-> escapes, index |-> index]
                    ELSE [kind |-> "More", escapes |-> escapes + 1, index |-> index + 2]
       ELSE [kind |-> "More", escapes |-> escapes, index |-> index + 1]

RECURSIVE Base94ValidateRange(_, _, _, _)
\* the passes of the validation loop that start at index .. stop, in order:
\* the passes of the first half of the range, then, from where they end,
\* those of the second half
Base94ValidateRange(data, index, escapes, stop) ==
    IF index > Len(data) THEN [kind |-> "Ok", escapes |-> escapes, index |-> index]
    ELSE IF index > stop THEN [kind |-> "More", escapes |-> escapes, index |-> index]
    ELSE IF index = stop THEN Base94ValidateStep(data, index, escapes)
    ELSE CHOOSE r \in { IF first.kind # "More" THEN first
                        ELSE Base94ValidateRange(data, first.index, first.escapes, stop) :
                           first \in { Base94ValidateRange(data, index, escapes,
                                                           (index + stop) \div 2) } } : TRUE

\* the validation loop of base94_decode_into over data[index..]: the error
\* kind of the first symbol it rejects, or "Ok" with the escape count
Base94Validate(data, index, escapes) ==
    CHOOSE v \in { [kind |-> IF r.kind = "More" THEN "Ok" ELSE r.kind,
                    escapes |-> r.escapes] :
                      r \in { Base94ValidateRange(data, index, escapes, Len(data)) } } : TRUE

\* one pass of the second loop of base94_decode_into, over validated
\* symbols, at data[index]: the byte pushed and the index of the next pass
Base94DecodeStep(data, key, index) ==
    LET value == data[index] - 32
    IN IF value >= BASE93
       THEN LET next == data[index + 1] - 32
                combined == ((value - BASE93 + 1) * BASE93) + next
            IN [out |-> << wrapping_add(combined % 256, key) >>, index |-> index + 2]
       ELSE [out |-> << wrapping_add(value, key) >>, index |-> index + 1]

RECURSIVE Base94DecodeRange(_, _, _, _)
\* the passes of the second loop that start at index .. stop, in order
Base94DecodeRange(data, key, index, stop) ==
    IF index > Len(data) \/ index > stop THEN [out |-> << >>, index |-> index]
    ELSE IF index = stop THEN Base94DecodeStep(data, key, index)
    ELSE CHOOSE r \in UNION {
                { [out |-> first.out \o rest.out, index |-> rest.index] :
                     rest \in { Base94DecodeRange(data, key, first.index, stop) } } :
                        first \in { Base94DecodeRange(data, key, index,
                                                      (index + stop) \div 2) } } : TRUE

\* the second loop of base94_decode_into over data[index..]
Base94DecodeFrom(data, key, index) ==
    Base94DecodeRange(data, key, index, Len(data)).out

\* base94_decode_into that does not add the key back
Base94DecodeIntoNoKey(data, key) ==
    LET v == Base94Validate(data, 1, 0)
    IN IF v.kind # "Ok" THEN [kind |-> v.kind, out |-> << >>]
       ELSE [kind |-> "Ok", out |-> Base94DecodeFrom(data, 0, 1)]

\* Result<()> of base94_decode_into together with the bytes left in out
base94_decode_into(data, key) ==
    LET v == Base94Validate(data, 1, 0)
    IN IF v.kind # "Ok" THEN [kind |-> v.kind, out |-> << >>]
       ELSE [kind |-> "Ok", out |-> Base94DecodeFrom(data, key, 1)]

\* ------------------------------------------------------------------------
\* Length-prefix codec
\* ------------------------------------------------------------------------
RECURSIVE Base94Digits(_)
\* the digits of value > 0, most significant first, each biased by 0x20
Base94Digits(value) ==
    IF value = 0 THEN << >>
    ELSE Append(Base94Digits(value \div 94), (value % 94) + PRINTABLE_START)

\* the bytes base94_decimal_encode writes to out[..len]; len is their number
base94_decimal_encode(value) ==
    IF value = 0 THEN << PRINTABLE_START >> ELSE Base94Digits(value)

RECURSIVE Base94Value(_, _, _)
Base94Value(data, index, value) ==
    IF index > Len(data) THEN [kind |-> "Ok", value |-> value]
    ELSE IF data[index] < PRINTABLE_START \/ data[index] > PRINTABLE_END
    THEN [kind |-> "InvalidData", value |-> 0]
    ELSE Base94Value(data, index + 1, (value * 94) + (data[index] - PRINTABLE_START))

base94_decimal_decode(data) ==
    IF Len(data) = 0 \/ Len(data) > HEADER_MSS
    THEN [kind |-> "InvalidData", value |-> 0]
    ELSE Base94Value(data, 1, 0)

\* base94_decode_kf without the exchange of the two low length digits
Base94DecodeKfNoSwap(header) ==
    IF Len(header) >= HEADER_XSS
    THEN LET h1 == IF LowBit(header[1]) = 0
                   THEN [header EXCEPT ![2] = PRINTABLE_START]
                   ELSE header
         IN [h1 EXCEPT ![1] = PRINTABLE_START]
    ELSE header

base94_decode_kf(header) ==
    IF Len(header) >= HEADER_XSS
    THEN LET h1 == IF LowBit(header[1]) = 0
                   THEN [header EXCEPT ![2] = PRINTABLE_START]
                   ELSE header
             h2 == [h1 EXCEPT ![1] = PRINTABLE_START]
         IN [h2 EXCEPT ![3] = h2[4], ![4] = h2[3]]
    ELSE header

RECURSIVE WordSum(_, _)
\* the sum of the big-endian 16-bit words of data[index..], an odd trailing
\* byte counted as a high byte
WordSum(data, index) ==
    IF index > Len(data) THEN 0
    ELSE IF index = Len(data) THEN data[index] * 256
    ELSE (data[index] * 256) + data[index + 1] + WordSum(data, index + 2)

\* ip_standard_checksum with the first carry fold only
IpChecksumOneFold(data) ==
    LET acc0 == WordSum(data, 1)
        acc1 == (acc0 \div W16) + (acc0 % W16)
    IN acc1 % W16

ip_standard_checksum(data) ==
    LET acc0 == WordSum(data, 1)
        acc1 == (acc0 \div W16) + (acc0 % W16)
        acc2 == IF acc1 \div W16 # 0 THEN (acc1 \div W16) + (acc1 % W16) ELSE acc1
    IN acc2 % W16

inet_checksum(data) == (W16 - 1) - ip_standard_checksum(data)

\* data[from..to) of the source, as a sequence
Slice(data, from, to) == SubSeq(data, from + 1, to)

\* buffer with buffer[from..from + Len(bytes)) overwritten by bytes
Overwrite(buffer, from, bytes) ==
    AsBytes([i \in 1..Len(buffer) |->
                IF i > from /\ i <= from + Len(bytes) THEN bytes[i - from] ELSE buffer[i]])

\* the flag adjustment with the low bit of k set for a padded length
AdjustKOddWhenPadded(k, f) ==
    IF f = PRINTABLE_START
    THEN IF LowBit(k) = 0 THEN wrapping_add(k, 1) ELSE k
    ELSE IF LowBit(k) # 0
         THEN IF wrapping_add(k, 1) > PRINTABLE_END THEN 33 ELSE wrapping_add(k, 1)
         ELSE k

\* the first byte k of the prefix after the flag adjustment
AdjustK(k, f) ==
    IF f = PRINTABLE_START
    THEN IF LowBit(k) # 0 THEN wrapping_add(k, 1) ELSE k
    ELSE IF LowBit(k) = 0
         THEN IF wrapping_add(k, 1) > PRINTABLE_END THEN 33 ELSE wrapping_add(k, 1)
         ELSE k

\* EncodeVerification reporting the tail without the key/fill byte pair
EncodeVerificationSixBytes(prefix, payload_len, key, draws) ==
    LET kf_mod == ModM(key)
        checksum == inet_checksum(Slice(prefix, 0, HEADER_XSS))
        n == (Xor(checksum, payload_len) + kf_mod) % HEADER_MSS_MOD
        digits == base94_decimal_encode(n)
    IN IF Len(digits) # HEADER_MSS
       THEN [kind |-> "InvalidData", len |-> 0, buffer |-> prefix,
             short_only |-> FALSE, draws |-> draws]
       ELSE [kind |-> "Ok", len |-> HEADER_MSS + HEADER_MSS,
             buffer |-> Overwrite(prefix, HEADER_XSS, shuffle_bytes(digits, key)),
             short_only |-> TRUE, draws |-> draws]

\* the verification tail of encode_length_prefix, written behind the four
\* bytes of prefix when short_only is false
EncodeVerification(prefix, payload_len, key, draws) ==
    LET kf_mod == ModM(key)
        checksum == inet_checksum(Slice(prefix, 0, HEADER_XSS))
        n == (Xor(checksum, payload_len) + kf_mod) % HEADER_MSS_MOD
        digits == base94_decimal_encode(n)
    IN IF Len(digits) # HEADER_MSS
       THEN [kind |-> "InvalidData", len |-> 0, buffer |-> prefix,
             short_only |-> FALSE, draws |-> draws]
       ELSE [kind |-> "Ok", len |-> HEADER_XSS + HEADER_MSS,
             buffer |-> Overwrite(prefix, HEADER_XSS, shuffle_bytes(digits, key)),
             short_only |-> TRUE, draws |-> draws]

\* encode_length_prefix: k_raw and f_raw are what the next calls of
\* rng.next_u32() return.  The result carries the Result (kind, len), the
\* buffer and the flag as the call leaves them and the number of rng calls.
encode_length_prefix(payload_len, key, buffer, k_raw, f_raw, short_only) ==
    IF payload_len = 0
    THEN [kind |-> "InvalidData", len |-> 0, buffer |-> buffer,
          short_only |-> short_only, draws |-> 0]
    ELSE IF payload_len >= HEADER_MSS_MOD
    THEN [kind |-> "InvalidData", len |-> 0, buffer |-> buffer,
          short_only |-> short_only, draws |-> 0]
    ELSE
    LET filled == AsBytes([i \in 1..(HEADER_XSS + HEADER_MSS) |-> PRINTABLE_START])
        kf_mod == ModM(key)
        n == (payload_len + kf_mod) % HEADER_MSS_MOD
        digits == base94_decimal_encode(n)
        dl == Len(digits)
    IN IF dl = 0 \/ dl >= HEADER_XSS
       THEN [kind |-> "InvalidData", len |-> 0, buffer |-> filled,
             short_only |-> short_only, draws |-> 0]
       ELSE
       LET start == HEADER_XSS - dl
           prefix1 == Overwrite(filled, start, digits)
           k0 == random_range(k_raw, PRINTABLE_START, PRINTABLE_END)
           f0 == prefix1[2]
           k == AdjustK(k0, f0)
           f == IF f0 = PRINTABLE_START
                THEN random_range(f_raw, PRINTABLE_START, PRINTABLE_END)
                ELSE f0
           draws == IF f0 = PRINTABLE_START THEN 2 ELSE 1
           prefix2 == [prefix1 EXCEPT ![1] = k, ![2] = f,
                                      ![3] = prefix1[4], ![4] = prefix1[3]]
       IN IF short_only
          THEN [kind |-> "Ok", len |-> HEADER_XSS, buffer |-> prefix2,
                short_only |-> short_only, draws |-> draws]
          ELSE EncodeVerification(prefix2, payload_len, key, draws)

\* DecodeShortPrefix falling back to the long prefix when a prefix is bad
DecodeShortPrefixFallback(data, key, buffer) ==
    IF Len(data) < HEADER_XSS
    THEN [kind |-> "UnexpectedEof", length |-> 0, used |-> 0,
          buffer |-> buffer, short_only |-> FALSE]
    ELSE
    LET copied == Overwrite(buffer, 0, Slice(data, 0, HEADER_XSS))
        head == base94_decode_kf(Slice(copied, 0, HEADER_XSS))
        buf == Overwrite(copied, 0, head)
        kf_mod == ModM(key)
        raw == base94_decimal_decode(Slice(buf, 1, 1 + HEADER_MSS))
        length == (raw.value + HEADER_MSS_MOD - kf_mod) % HEADER_MSS_MOD
    IN IF raw.kind # "Ok"
       THEN [kind |-> raw.kind, length |-> 0, used |-> 0,
             buffer |-> buf, short_only |-> FALSE]
       ELSE IF length = 0
       THEN [kind |-> "InvalidData", length |-> 0, used |-> 0,
             buffer |-> buf, short_only |-> FALSE]
       ELSE [kind |-> "Ok", length |-> length, used |-> HEADER_XSS,
             buffer |-> buf, short_only |-> TRUE]

\* decode_length_prefix when short_only is true
DecodeShortPrefix(data, key, buffer) ==
    IF Len(data) < HEADER_XSS
    THEN [kind |-> "UnexpectedEof", length |-> 0, used |-> 0,
          buffer |-> buffer, short_only |-> TRUE]
    ELSE
    LET copied == Overwrite(buffer, 0, Slice(data, 0, HEADER_XSS))
        head == base94_decode_kf(Slice(copied, 0, HEADER_XSS))
        buf == Overwrite(copied, 0, head)
        kf_mod == ModM(key)
        raw == base94_decimal_decode(Slice(buf, 1, 1 + HEADER_MSS))
        length == (raw.value + HEADER_MSS_MOD - kf_mod) % HEADER_MSS_MOD
    IN IF raw.kind # "Ok"
       THEN [kind |-> raw.kind, length |-> 0, used |-> 0,
             buffer |-> buf, short_only |-> TRUE]
       ELSE IF length = 0
       THEN [kind |-> "InvalidData", length |-> 0, used |-> 0,
             buffer |-> buf, short_only |-> TRUE]
       ELSE [kind |-> "Ok", length |-> length, used |-> HEADER_XSS,
             buffer |-> buf, short_only |-> TRUE]

\* the long prefix read without comparing the verification tail
DecodeLongPrefixUnverified(data, key, buffer) ==
    IF Len(data) < HEADER_XSS + HEADER_MSS
    THEN [kind |-> "UnexpectedEof", length |-> 0, used |-> 0,
          buffer |-> buffer, short_only |-> FALSE]
    ELSE
    LET copied == Slice(data, 0, HEADER_XSS + HEADER_MSS)
        checksum == inet_checksum(Slice(copied, 0, HEADER_XSS))
        head == base94_decode_kf(Slice(copied, 0, HEADER_XSS))
        buf == Overwrite(copied, 0, head)
        kf_mod == ModM(key)
        raw_length == base94_decimal_decode(Slice(buf, 1, 1 + HEADER_MSS))
        length == (raw_length.value + HEADER_MSS_MOD - kf_mod) % HEADER_MSS_MOD
        extra == unshuffle_bytes(Slice(buf, HEADER_XSS, HEADER_XSS + HEADER_MSS), key)
        raw_verify == base94_decimal_decode(extra)
        verify == (raw_verify.value + HEADER_MSS_MOD - kf_mod) % HEADER_MSS_MOD
        expected == Xor(checksum, length)
    IN IF raw_length.kind # "Ok"
       THEN [kind |-> raw_length.kind, length |-> 0, used |-> 0,
             buffer |-> buf, short_only |-> FALSE]
       ELSE IF length = 0
       THEN [kind |-> "InvalidData", length |-> 0, used |-> 0,
             buffer |-> buf, short_only |-> FALSE]
       ELSE IF raw_verify.kind # "Ok"
       THEN [kind |-> raw_verify.kind, length |-> 0, used |-> 0,
             buffer |-> buf, short_only |-> FALSE]
       ELSE [kind |-> "Ok", length |-> length, used |-> HEADER_XSS + HEADER_MSS,
             buffer |-> buf, short_only |-> TRUE]

\* DecodeLongPrefix taking the verification tail from the buffer as the
\* earlier frame left it, before the copy
DecodeLongPrefixStaleTail(data, key, buffer) ==
    IF Len(data) < HEADER_XSS + HEADER_MSS
    THEN [kind |-> "UnexpectedEof", length |-> 0, used |-> 0,
          buffer |-> buffer, short_only |-> FALSE]
    ELSE
    LET copied == Slice(data, 0, HEADER_XSS + HEADER_MSS)
        checksum == inet_checksum(Slice(copied, 0, HEADER_XSS))
        head == base94_decode_kf(Slice(copied, 0, HEADER_XSS))
        buf == Overwrite(copied, 0, head)
        kf_mod == ModM(key)
        raw_length == base94_decimal_decode(Slice(buf, 1, 1 + HEADER_MSS))
        length == (raw_length.value + HEADER_MSS_MOD - kf_mod) % HEADER_MSS_MOD
        extra == unshuffle_bytes(Slice(buffer, HEADER_XSS, HEADER_XSS + HEADER_MSS), key)
        raw_verify == base94_decimal_decode(extra)
        verify == (raw_verify.value + HEADER_MSS_MOD - kf_mod) % HEADER_MSS_MOD
        expected == Xor(checksum, length)
    IN IF raw_length.kind # "Ok"
       THEN [kind |-> raw_length.kind, length |-> 0, used |-> 0,
             buffer |-> buf, short_only |-> FALSE]
       ELSE IF length = 0
       THEN [kind |-> "InvalidData", length |-> 0, used |-> 0,
             buffer |-> buf, short_only |-> FALSE]
       ELSE IF raw_verify.kind # "Ok"
       THEN [kind |-> raw_verify.kind, length |-> 0, used |-> 0,
             buffer |-> buf, short_only |-> FALSE]
       ELSE IF verify # expected
       THEN [kind |-> "InvalidData", length |-> 0, used |-> 0,
             buffer |-> buf, short_only |-> FALSE]
       ELSE [kind |-> "Ok", length |-> length, used |-> HEADER_XSS + HEADER_MSS,
             buffer |-> buf, short_only |-> TRUE]

\* decode_length_prefix when short_only is false
DecodeLongPrefix(data, key, buffer) ==
    IF Len(data) < HEADER_XSS + HEADER_MSS
    THEN [kind |-> "UnexpectedEof", length |-> 0, used |-> 0,
          buffer |-> buffer, short_only |-> FALSE]
    ELSE
    LET copied == Slice(data, 0, HEADER_XSS + HEADER_MSS)
        checksum == inet_checksum(Slice(copied, 0, HEADER_XSS))
        head == base94_decode_kf(Slice(copied, 0, HEADER_XSS))
        buf == Overwrite(copied, 0, head)
        kf_mod == ModM(key)
        raw_length == base94_decimal_decode(Slice(buf, 1, 1 + HEADER_MSS))
        length == (raw_length.value + HEADER_MSS_MOD - kf_mod) % HEADER_MSS_MOD
        extra == unshuffle_bytes(Slice(buf, HEADER_XSS, HEADER_XSS + HEADER_MSS), key)
        raw_verify == base94_decimal_decode(extra)
        verify == (raw_verify.value + HEADER_MSS_MOD - kf_mod) % HEADER_MSS_MOD
        expected == Xor(checksum, length)
    IN IF raw_length.kind # "Ok"
       THEN [kind |-> raw_length.kind, length |-> 0, used |-> 0,
             buffer |-> buf, short_only |-> FALSE]
       ELSE IF length = 0
       THEN [kind |-> "InvalidData", length |-> 0, used |-> 0,
             buffer |-> buf, short_only |-> FALSE]
       ELSE IF raw_verify.kind # "Ok"
       THEN [kind |-> raw_verify.kind, length |-> 0, used |-> 0,
             buffer |-> buf, short_only |-> FALSE]
       ELSE IF verify # expected
       THEN [kind |-> "InvalidData", length |-> 0, used |-> 0,
             buffer |-> buf, short_only |-> FALSE]
       ELSE [kind |-> "Ok", length |-> length, used |-> HEADER_XSS + HEADER_MSS,
             buffer |-> buf, short_only |-> TRUE]

\* decode_length_prefix that reads a short prefix where no long one verifies
DecodePrefixEitherForm(data, key, buffer, short_only) ==
    IF short_only \/ DecodeLongPrefix(data, key, buffer).kind # "Ok"
    THEN DecodeShortPrefix(data, key, buffer)
    ELSE DecodeLongPrefix(data, key, buffer)

\* decode_length_prefix: the Result (kind, length, used), the buffer and the
\* flag as the call leaves them
decode_length_prefix(data, key, buffer, short_only) ==
    IF short_only
    THEN DecodeShortPrefix(data, key, buffer)
    ELSE DecodeLongPrefix(data, key, buffer)

\* ------------------------------------------------------------------------
\* Frame codec
\* ------------------------------------------------------------------------
\* CtcpTx::new with the flag already set
CtcpTxNewShort(key) ==
    [key |-> key, working |-> << >>, packet |-> << >>, payload |-> << >>,
     encoded |-> << >>,
     length_buf |-> AsBytes([i \in 1..(HEADER_XSS + HEADER_MSS) |-> 0]),
     rng |-> 0, short_only |-> TRUE]

\* CtcpTx::new; rng counts the calls of rng.next_u32()
CtcpTx_new(key) ==
    [key |-> key, working |-> << >>, packet |-> << >>, payload |-> << >>,
     encoded |-> << >>,
     length_buf |-> AsBytes([i \in 1..(HEADER_XSS + HEADER_MSS) |-> 0]),
     rng |-> 0, short_only |-> FALSE]

\* CtcpRx::new
CtcpRx_new(key) ==
    [key |-> key, working |-> << >>,
     header_buf |-> AsBytes([i \in 1..(HEADER_XSS + HEADER_MSS) |-> 0]),
     short_only |-> FALSE]

\* CtcpTx::encode past its two length checks: the header, the transforms,
\* the base-94 payload and the length prefix
EncodeFrame(tx, data, nonce_raw, k_raw, f_raw) ==
    LET key_byte == mask_key(tx.key)
        h0 == random_range(nonce_raw, 1, 255)
        len_minus_one == (Len(data) - 1) % W16
        header0 == << h0, len_minus_one \div 256, len_minus_one % 256 >>
        frame_key_full == XorU32(tx.key, h0)
        frame_key_byte == mask_key(frame_key_full)
        tail == shuffle_bytes(mask_bytes(Slice(header0, 1, HEADER_MSS), frame_key_byte),
                              frame_key_full)
        header == delta_encode_in_place(<< h0 >> \o tail, key_byte)
        working == delta_encode_in_place(
                       shuffle_bytes(mask_bytes(data, frame_key_byte), frame_key_full),
                       key_byte)
        packet == header \o working
        payload == base94_encode_into(packet, key_byte)
        pre == encode_length_prefix(Len(payload), tx.key, tx.length_buf,
                                    k_raw, f_raw, tx.short_only)
        tx1 == [tx EXCEPT !.working = working, !.packet = packet, !.payload = payload,
                          !.length_buf = pre.buffer, !.rng = tx.rng + 1 + pre.draws,
                          !.short_only = pre.short_only]
    IN IF pre.kind # "Ok"
       THEN [kind |-> pre.kind, bytes |-> << >>, prefix_len |-> 0, tx |-> tx1]
       ELSE [kind |-> "Ok",
             bytes |-> Slice(pre.buffer, 0, pre.len) \o payload,
             prefix_len |-> pre.len,
             tx |-> [tx1 EXCEPT !.encoded = << >>]]

\* CtcpTx::encode without the early return for an empty frame
CtcpTxEncodeNoEmptyCase(tx, data, nonce_raw, k_raw, f_raw) ==
    IF Len(data) > MAX_FRAME
    THEN [kind |-> "InvalidData", bytes |-> << >>, prefix_len |-> 0, tx |-> tx]
    ELSE EncodeFrame(tx, data, nonce_raw, k_raw, f_raw)

\* CtcpTx::encode: nonce_raw, k_raw and f_raw are what the next calls of
\* rng.next_u32() return.  The result is the Result (kind, bytes), the
\* prefix length used and the encoder as the call leaves it.
CtcpTx_encode(tx, data, nonce_raw, k_raw, f_raw) ==
    IF Len(data) = 0
    THEN [kind |-> "Ok", bytes |-> << >>, prefix_len |-> 0, tx |-> tx]
    ELSE IF Len(data) > MAX_FRAME
    THEN [kind |-> "InvalidData", bytes |-> << >>, prefix_len |-> 0, tx |-> tx]
    ELSE EncodeFrame(tx, data, nonce_raw, k_raw, f_raw)

\* a decode that returns the body whatever length the header declares
DecodeFrameAnyLength(rx, frame) ==
    LET pre == decode_length_prefix(frame, rx.key, rx.header_buf, rx.short_only)
        rx1 == [rx EXCEPT !.header_buf = pre.buffer, !.short_only = pre.short_only]
    IN IF pre.kind # "Ok"
       THEN [kind |-> pre.kind, bytes |-> << >>, rx |-> rx1]
       ELSE IF Len(frame) < pre.used + pre.length
       THEN [kind |-> "UnexpectedEof", bytes |-> << >>, rx |-> rx1]
       ELSE IF Len(frame) # pre.used + pre.length
       THEN [kind |-> "InvalidData", bytes |-> << >>, rx |-> rx1]
       ELSE
       LET payload_ascii == Slice(frame, pre.used, pre.used + pre.length)
           key_byte == mask_key(rx.key)
           dec == base94_decode_into(payload_ascii, key_byte)
           rx2 == [rx1 EXCEPT !.working = << >>]
       IN IF dec.kind # "Ok"
          THEN [kind |-> dec.kind, bytes |-> << >>, rx |-> rx2]
          ELSE IF Len(dec.out) < HEADER_MSS
          THEN [kind |-> "InvalidData", bytes |-> << >>, rx |-> rx2]
          ELSE
          LET header_slice == delta_decode_in_place(Slice(dec.out, 0, HEADER_MSS), key_byte)
              frame_key_full == XorU32(rx.key, header_slice[1])
              frame_key_byte == mask_key(frame_key_full)
              tail == mask_bytes(unshuffle_bytes(Slice(header_slice, 1, HEADER_MSS),
                                                 frame_key_full),
                                 frame_key_byte)
              payload_slice ==
                  mask_bytes(
                      unshuffle_bytes(
                          delta_decode_in_place(Slice(dec.out, HEADER_MSS, Len(dec.out)),
                                                key_byte),
                          frame_key_full),
                      frame_key_byte)
          IN [kind |-> "Ok", bytes |-> payload_slice, rx |-> rx2]

\* CtcpRx::decode of a non-empty frame
DecodeFrame(rx, frame) ==
    LET pre == decode_length_prefix(frame, rx.key, rx.header_buf, rx.short_only)
        rx1 == [rx EXCEPT !.header_buf = pre.buffer, !.short_only = pre.short_only]
    IN IF pre.kind # "Ok"
       THEN [kind |-> pre.kind, bytes |-> << >>, rx |-> rx1]
       ELSE IF Len(frame) < pre.used + pre.length
       THEN [kind |-> "UnexpectedEof", bytes |-> << >>, rx |-> rx1]
       ELSE IF Len(frame) # pre.used + pre.length
       THEN [kind |-> "InvalidData", bytes |-> << >>, rx |-> rx1]
       ELSE
       LET payload_ascii == Slice(frame, pre.used, pre.used + pre.length)
           key_byte == mask_key(rx.key)
           dec == base94_decode_into(payload_ascii, key_byte)
           rx2 == [rx1 EXCEPT !.working = << >>]
       IN IF dec.kind # "Ok"
          THEN [kind |-> dec.kind, bytes |-> << >>, rx |-> rx2]
          ELSE IF Len(dec.out) < HEADER_MSS
          THEN [kind |-> "InvalidData", bytes |-> << >>, rx |-> rx2]
          ELSE
          LET header_slice == delta_decode_in_place(Slice(dec.out, 0, HEADER_MSS), key_byte)
              frame_key_full == XorU32(rx.key, header_slice[1])
              frame_key_byte == mask_key(frame_key_full)
              tail == mask_bytes(unshuffle_bytes(Slice(header_slice, 1, HEADER_MSS),
                                                 frame_key_full),
                                 frame_key_byte)
              expected_len == ((tail[1] * 256) + tail[2]) + 1
              payload_slice ==
                  mask_bytes(
                      unshuffle_bytes(
                          delta_decode_in_place(Slice(dec.out, HEADER_MSS, Len(dec.out)),
                                                key_byte),
                          frame_key_full),
                      frame_key_byte)
          IN IF Len(payload_slice) # expected_len
             THEN [kind |-> "InvalidData", bytes |-> << >>, rx |-> rx2]
             ELSE [kind |-> "Ok", bytes |-> payload_slice, rx |-> rx2]

\* a decode that puts short_only back when it returns an error
CtcpRxDecodeRestoreFlag(rx, frame) ==
    IF Len(frame) = 0
    THEN [kind |-> "Ok", bytes |-> << >>, rx |-> rx]
    ELSE LET r == DecodeFrame(rx, frame)
         IN IF r.kind # "Ok"
            THEN [r EXCEPT !.rx = [r.rx EXCEPT !.short_only = rx.short_only]]
            ELSE r

\* a decode that reports every short frame as invalid data
CtcpRxDecodeNoEof(rx, frame) ==
    IF Len(frame) = 0
    THEN [kind |-> "Ok", bytes |-> << >>, rx |-> rx]
    ELSE LET r == DecodeFrame(rx, frame)
         IN IF r.kind = "UnexpectedEof" THEN [r EXCEPT !.kind = "InvalidData"] ELSE r

\* CtcpRx::decode: the Result (kind, bytes) and the decoder as the call
\* leaves it
CtcpRx_decode(rx, frame) ==
    IF Len(frame) = 0
    THEN [kind |-> "Ok", bytes |-> << >>, rx |-> rx]
    ELSE DecodeFrame(rx, frame)

\* ------------------------------------------------------------------------
\* Bounds and input sets
\* ------------------------------------------------------------------------
\* start_send calls per run of the codec
MaxSends == 3
\* frames the transport damages per run
MaxCorrupt == 1
\* frames as long as MaxSizeFrame submitted per run
MaxBig == 1
\* encode_length_prefix calls per run of the prefix codec
MaxPrefixes == 3

\* keys: the default key, a key above 2^31 and a small key whose length
\* digits are zero-padded
Keys == { ToU32(DEFAULT_KEY), U32(63380, 25206), U32(0, 77) }

\* what three consecutive calls of rng.next_u32() return
Draws == { << U32(0, 0), U32(65535, 65535), U32(0, 0) >>,
           << U32(65535, 65535), U32(0, 0), U32(65535, 65535) >> }

\* a frame of 65536 bytes and one a byte longer
MaxSizeFrame == AsBytes([i \in 1..65536 |-> 0])
OverSizeFrame == AsBytes([i \in 1..65537 |-> 0])

\* frames submitted by the aggregation core
Frames == { << >>, << 0 >>, << 255, 65 >>, OverSizeFrame }
LimitFrames == { MaxSizeFrame, OverSizeFrame, << 0 >>, << >> }
\* the rng output while frames at the size limit are submitted
LimitDraws == { << U32(0, 0), U32(65535, 65535), U32(0, 0) >> }

\* payload lengths handed to the prefix codec: those of the tests, the
\* longest payload of a frame and the longest the prefix can carry
MaxPayload == 2 * (MAX_FRAME + HEADER_MSS)
PayloadLens == { 128, 256, MaxPayload, HEADER_MSS_MOD - 1 }

\* ------------------------------------------------------------------------
\* State
\* ------------------------------------------------------------------------
VARIABLES
    tx,         \* the CtcpTx half (its inner sink is the transport, wire)
    rx,         \* the CtcpRx half of the peer (its inner stream is wire)
    wire,       \* frames the inner sink accepted and the inner stream has not yielded
    accepted,   \* history: frames for which start_send returned Ok
    yielded,    \* history: frames poll_next yielded as Ok
    encLog,     \* history: prefix of every successful encode of a non-empty frame
    lastTx,     \* history: the last start_send call (len: the length of its item)
    lastRx,     \* history: the last poll_next call
    txFailed,   \* history: encode has returned an error
    rxFailed,   \* history: decode has returned an error
    nsent,      \* history: number of start_send calls
    nbig,       \* history: number of submitted frames as long as MaxSizeFrame
    ncorrupt,   \* history: number of damaged frames
    ptx,        \* prefix codec alone: buffer and short_only of the encoding side
    prx,        \* prefix codec alone: buffer and short_only of the decoding side
    pwire,      \* prefix codec alone: emitted prefixes not yet decoded
    penc,       \* history: every encode_length_prefix call
    pdec,       \* history: every decode_length_prefix call
    probe       \* history: the last call made on a half apart from the run

codecVars == << tx, rx, wire, accepted, yielded, encLog, lastTx, lastRx,
                txFailed, rxFailed, nsent, nbig, ncorrupt >>
prefixVars == << ptx, prx, pwire, penc, pdec >>
probeVars == << probe >>
vars == << tx, rx, wire, accepted, yielded, encLog, lastTx, lastRx,
           txFailed, rxFailed, nsent, nbig, ncorrupt, ptx, prx, pwire, penc, pdec,
           probe >>

NoCall == [call |-> "none"]

Init ==
    /\ \E key \in Keys :
          /\ tx = CtcpTx_new(key)
          /\ rx = CtcpRx_new(key)
    /\ wire = << >>
    /\ accepted = << >>
    /\ yielded = << >>
    /\ encLog = << >>
    /\ lastTx = NoCall
    /\ lastRx = NoCall
    /\ txFailed = FALSE
    /\ rxFailed = FALSE
    /\ nsent = 0
    /\ nbig = 0
    /\ ncorrupt = 0
    /\ ptx = [buffer |-> tx.length_buf, short_only |-> FALSE]
    /\ prx = [buffer |-> rx.header_buf, short_only |-> FALSE]
    /\ pwire = << >>
    /\ penc = << >>
    /\ pdec = << >>
    /\ probe = NoCall

\* ------------------------------------------------------------------------
\* Sink and Stream adaptors
\* ------------------------------------------------------------------------
\* start_send whose encoder is left as it was when the frame is not accepted
ForwardKeepFlag(enc, item, inner_ok) ==
    LET result == IF enc.kind # "Ok" THEN enc.kind
                  ELSE IF inner_ok THEN "Ok" ELSE "Other"
    IN /\ tx' = IF result = "Ok" THEN enc.tx ELSE tx
       /\ wire' = IF result = "Ok" THEN Append(wire, enc.bytes) ELSE wire
       /\ accepted' = IF result = "Ok" THEN Append(accepted, item) ELSE accepted
       /\ encLog' = IF enc.kind = "Ok" /\ Len(item) > 0
                    THEN Append(encLog,
                                [prefix_len |-> enc.prefix_len,
                                 tail |-> decode_length_prefix(enc.bytes, tx.key,
                                              tx.length_buf, FALSE).kind = "Ok"])
                    ELSE encLog
       /\ lastTx' = [call |-> "start_send", len |-> Len(item), encode |-> enc.kind,
                     bytes |-> enc.bytes, prefix_len |-> enc.prefix_len,
                     result |-> result, before |-> tx,
                     inner_calls |-> IF enc.kind = "Ok" THEN 1 ELSE 0,
                     inner |-> IF enc.kind # "Ok" THEN "none"
                               ELSE IF inner_ok THEN "Ok" ELSE "Other"]
       /\ txFailed' = (txFailed \/ enc.kind # "Ok")
       /\ nsent' = nsent + 1
       /\ nbig' = IF Len(item) = Len(MaxSizeFrame) THEN nbig + 1 ELSE nbig
       /\ UNCHANGED << rx, yielded, lastRx, rxFailed, ncorrupt >>
       /\ UNCHANGED prefixVars
       /\ UNCHANGED probeVars

\* the rest of CtcpTx::start_send once encode has returned enc: `?` returns
\* the error, otherwise the frame goes to the inner sink
Forward(enc, item, inner_ok) ==
    LET result == IF enc.kind # "Ok" THEN enc.kind
                  ELSE IF inner_ok THEN "Ok" ELSE "Other"
    IN /\ tx' = enc.tx
       /\ wire' = IF result = "Ok" THEN Append(wire, enc.bytes) ELSE wire
       /\ accepted' = IF result = "Ok" THEN Append(accepted, item) ELSE accepted
       /\ encLog' = IF enc.kind = "Ok" /\ Len(item) > 0
                    THEN Append(encLog,
                                [prefix_len |-> enc.prefix_len,
                                 tail |-> decode_length_prefix(enc.bytes, tx.key,
                                              tx.length_buf, FALSE).kind = "Ok"])
                    ELSE encLog
       /\ lastTx' = [call |-> "start_send", len |-> Len(item), encode |-> enc.kind,
                     bytes |-> enc.bytes, prefix_len |-> enc.prefix_len,
                     result |-> result, before |-> tx,
                     inner_calls |-> IF enc.kind = "Ok" THEN 1 ELSE 0,
                     inner |-> IF enc.kind # "Ok" THEN "none"
                               ELSE IF inner_ok THEN "Ok" ELSE "Other"]
       /\ txFailed' = (txFailed \/ enc.kind # "Ok")
       /\ nsent' = nsent + 1
       /\ nbig' = IF Len(item) = Len(MaxSizeFrame) THEN nbig + 1 ELSE nbig
       /\ UNCHANGED << rx, yielded, lastRx, rxFailed, ncorrupt >>
       /\ UNCHANGED prefixVars
       /\ UNCHANGED probeVars

\* CtcpTx::start_send(item); draw is what the rng returns next and inner_ok
\* whether the inner sink's start_send returns Ok
start_send(item, draw, inner_ok) ==
    Forward(CtcpTx_encode(tx, item, draw[1], draw[2], draw[3]), item, inner_ok)

\* the aggregation core submits a frame; the transport accepts what it is given
StartSend ==
    /\ nsent < MaxSends
    /\ \E item \in Frames, draw \in Draws : start_send(item, draw, TRUE)

\* the aggregation core submits a frame at the size limit
StartSendLimit ==
    /\ nsent < MaxSends
    /\ \E item \in LimitFrames, draw \in LimitDraws :
          /\ Len(item) = Len(MaxSizeFrame) => nbig < MaxBig
          /\ start_send(item, draw, TRUE)

\* poll_next of halves that keep one flag between them
YieldSharedFlag(dec, frame) ==
    /\ rx' = dec.rx
    /\ tx' = [tx EXCEPT !.short_only = dec.rx.short_only]
    /\ wire' = Tail(wire)
    /\ yielded' = IF dec.kind = "Ok" THEN Append(yielded, dec.bytes) ELSE yielded
    /\ lastRx' = [call |-> "poll_next", frame |-> frame, result |-> dec.kind,
                  bytes |-> dec.bytes, before |-> rx, inner |-> "Item"]
    /\ rxFailed' = (rxFailed \/ dec.kind # "Ok")
    /\ UNCHANGED << accepted, encLog, lastTx, txFailed, nsent, nbig, ncorrupt >>
    /\ UNCHANGED prefixVars
    /\ UNCHANGED probeVars

\* the rest of CtcpRx::poll_next once decode has returned dec for frame
Yield(dec, frame) ==
    /\ rx' = dec.rx
    /\ wire' = Tail(wire)
    /\ yielded' = IF dec.kind = "Ok" THEN Append(yielded, dec.bytes) ELSE yielded
    /\ lastRx' = [call |-> "poll_next", frame |-> frame, result |-> dec.kind,
                  bytes |-> dec.bytes, before |-> rx, inner |-> "Item"]
    /\ rxFailed' = (rxFailed \/ dec.kind # "Ok")
    /\ UNCHANGED << tx, accepted, encLog, lastTx, txFailed, nsent, nbig, ncorrupt >>
    /\ UNCHANGED prefixVars
    /\ UNCHANGED probeVars

\* poll_next taking the newest frame of the inner stream
PollNewest ==
    /\ Len(wire) > 0
    /\ Yield(CtcpRx_decode(rx, wire[Len(wire)]), wire[Len(wire)])

\* CtcpRx::poll_next when the inner stream yields Ready(Some(Ok(frame)))
PollNext ==
    /\ Len(wire) > 0
    /\ Yield(CtcpRx_decode(rx, Head(wire)), Head(wire))

\* what a faulty transport can make of a frame: a lost last byte, an extra
\* byte, a byte replaced by a non-printable one
Damaged(frame) ==
    { SubSeq(frame, 1, Len(frame) - 1), Append(frame, 65) }
    \cup { [frame EXCEPT ![i] = 127] :
              i \in { j \in { 1, 2, 3, Len(frame) } : j <= Len(frame) } }

\* the transport damages the frame the inner stream yields next
Corrupt ==
    /\ ncorrupt < MaxCorrupt
    /\ Len(wire) > 0
    /\ Len(Head(wire)) > 0
    /\ \E bad \in Damaged(Head(wire)) : wire' = << bad >> \o Tail(wire)
    /\ ncorrupt' = ncorrupt + 1
    /\ UNCHANGED << tx, rx, accepted, yielded, encLog, lastTx, lastRx,
                    txFailed, rxFailed, nsent, nbig >>
    /\ UNCHANGED prefixVars
    /\ UNCHANGED probeVars

\* ------------------------------------------------------------------------
\* The prefix codec alone, as the unit tests drive it
\* ------------------------------------------------------------------------
EncodePrefix ==
    /\ Len(penc) < MaxPrefixes
    /\ \E payload_len \in PayloadLens, draw \in Draws :
          LET r == encode_length_prefix(payload_len, tx.key, ptx.buffer,
                                        draw[2], draw[3], ptx.short_only)
          IN /\ ptx' = [buffer |-> r.buffer, short_only |-> r.short_only]
             /\ pwire' = IF r.kind = "Ok"
                         THEN Append(pwire, Slice(r.buffer, 0, r.len))
                         ELSE pwire
             /\ penc' = Append(penc, [payload_len |-> payload_len, kind |-> r.kind,
                                      len |-> r.len, long |-> ~ptx.short_only,
                                      bytes |-> Slice(r.buffer, 0, r.len),
                                      k_raw |-> draw[2], f_raw |-> draw[3]])
             /\ UNCHANGED << prx, pdec >>
    /\ UNCHANGED codecVars
    /\ UNCHANGED probeVars

DecodePrefix ==
    /\ Len(pwire) > 0
    /\ LET r == decode_length_prefix(Head(pwire), rx.key, prx.buffer, prx.short_only)
       IN /\ prx' = [buffer |-> r.buffer, short_only |-> r.short_only]
          /\ pwire' = Tail(pwire)
          /\ pdec' = Append(pdec, [kind |-> r.kind, length |-> r.length,
                                   used |-> r.used, short_only |-> r.short_only])
          /\ UNCHANGED << ptx, penc >>
    /\ UNCHANGED codecVars
    /\ UNCHANGED probeVars

\* ------------------------------------------------------------------------
\* CtcpRx::decode applied to one frame
\* ------------------------------------------------------------------------
\* the key of a peer that was configured differently
AliasKey == ToU32(DEFAULT_KEY + (256 * HEADER_MSS_MOD))
PeerKeys == Keys \cup { AliasKey }

\* non-empty frames the peer encodes
ProbeFrames == { << 0 >>, << 255, 65 >> }

\* the first frame of a direction: a one-byte frame encoded by a fresh
\* encoder, with a draw for which the encode succeeds
FirstEncode(key) ==
    CHOOSE e \in { CtcpTx_encode(CtcpTx_new(key), << 0 >>, d[1], d[2], d[3]) :
                      d \in Draws } : e.kind = "Ok"

\* the encoder half as constructed, or as its first frame left it
TxIn(key, short) == IF short THEN FirstEncode(key).tx ELSE CtcpTx_new(key)

\* the decoder half as constructed, or as the first frame of its peer left it
RxIn(key, short) ==
    IF short
    THEN CHOOSE r \in { CtcpRx_decode(CtcpRx_new(key), e.bytes).rx :
                           e \in { FirstEncode(key) } } : TRUE
    ELSE CtcpRx_new(key)

\* what the transport can hand over in place of a frame: the frame, the
\* frame cut or extended by a byte, the frame with one byte replaced by a
\* byte below 0x20, by a byte above 0x7e or by another printable byte
Tampered(frame) ==
    { frame, SubSeq(frame, 1, Len(frame) - 1), Append(frame, 65) }
    \cup { [frame EXCEPT ![i] = v] :
              i \in 1..Len(frame), v \in { 31, 127, 65, 66 } }

\* the decoder before is handed frame and decode returns dec
Observe(dec, enc, enc_key, enc_short, item, before, frame) ==
    /\ probe' = [call |-> "decode", enc_key |-> enc_key, enc_short |-> enc_short,
                 item |-> item, sent |-> enc.bytes, prefix_len |-> enc.prefix_len,
                 frame |-> frame, before |-> before, result |-> dec.kind,
                 bytes |-> dec.bytes, after |-> dec.rx]
    /\ UNCHANGED codecVars
    /\ UNCHANGED prefixVars

\* the transport hands over what it made of the frame enc
Offer(enc, enc_key, enc_short, item, before) ==
    /\ enc.kind = "Ok"
    /\ \E frame \in Tampered(enc.bytes) :
          \E dec \in { CtcpRx_decode(before, frame) } :
             Observe(dec, enc, enc_key, enc_short, item, before, frame)

\* a peer with key enc_key, before or after its first frame, encodes item;
\* the decoder, before or after its first frame, decodes what arrives; one
\* call is observed in a behaviour
Probe ==
    /\ probe = NoCall
    /\ \E enc_key \in PeerKeys, enc_short \in BOOLEAN, dec_short \in BOOLEAN,
          item \in ProbeFrames, draw \in Draws :
             \E sender \in { TxIn(enc_key, enc_short) },
                before \in { RxIn(rx.key, dec_short) } :
                   \E enc \in { CtcpTx_encode(sender, item, draw[1], draw[2], draw[3]) } :
                      Offer(enc, enc_key, enc_short, item, before)

\* a frame no peer encodes
GarbageFrame == << 65, 65, 65, 65, 65, 65, 65, 65 >>

\* the frames a peer with the key encodes before and after first, its first
\* frame
Sent(first, key) ==
    { e \in { CtcpTx_encode(sender, item, d[1], d[2], d[3]) :
                 sender \in { CtcpTx_new(key), first.tx },
                 item \in ProbeFrames, d \in Draws } : e.kind = "Ok" }

\* the frames a decoder has been handed before the one observed: none, a
\* bad one, the first frame of the peer with a length digit replaced, that
\* frame as sent, and after it a bad one or a later frame of the peer
Histories(first, sent) ==
    { << >>,
      << GarbageFrame >>,
      << [first.bytes EXCEPT ![HEADER_MSS] = 65] >>,
      << first.bytes >>,
      << first.bytes, GarbageFrame >>,
      << first.bytes, (CHOOSE e \in sent : e.prefix_len = HEADER_XSS).bytes >> }

RECURSIVE RxAfter(_, _)
\* the decoder after decode calls on frames, in order
RxAfter(decoder, frames) ==
    IF frames = << >> THEN decoder
    ELSE RxAfter(CtcpRx_decode(decoder, Head(frames)).rx, Tail(frames))

\* two decoders with the same key and the same flag, whose buffers earlier
\* frames left different, are handed the same frame
ProbePair ==
    /\ probe = NoCall
    /\ \E first \in { FirstEncode(rx.key) } :
          \E sent \in { Sent(first, rx.key) } :
             \E pasts \in { { RxAfter(CtcpRx_new(rx.key), h) : h \in Histories(first, sent) } } :
                \E left \in pasts, right \in pasts, enc \in sent :
                   /\ left.short_only = right.short_only
                   /\ left # right
                   /\ \E frame \in Tampered(enc.bytes) :
                         \E res \in { [d \in { left, right } |-> CtcpRx_decode(d, frame)] } :
                            probe' = [call |-> "pair", frame |-> frame,
                                      intact |-> (frame = enc.bytes),
                                      left |-> left, right |-> right,
                                      result |-> << res[left].kind, res[right].kind >>,
                                      bytes |-> << res[left].bytes, res[right].bytes >>,
                                      after |-> << res[left].rx, res[right].rx >>]
    /\ UNCHANGED codecVars
    /\ UNCHANGED prefixVars

\* bodies a sender that skips both length checks of CtcpTx::encode puts on
\* the wire: none, short ones, the longest frame and one a byte longer,
\* whose length field wraps
UncheckedBodies == { << >>, << 0 >>, << 255, 65 >>, MaxSizeFrame, OverSizeFrame }

\* the calls observed of such a sender: whether the direction has had its
\* first frame, and the body
UncheckedCalls ==
    { << short, body >> : short \in BOOLEAN, body \in { << >>, << 0 >>, << 255, 65 >> } }
    \cup { << FALSE, MaxSizeFrame >>, << TRUE, OverSizeFrame >> }

\* what the transport hands over of a frame of such a sender: a short frame
\* as Tampered has it, a long one as it was sent
Handed(frame) == IF Len(frame) <= 4 * HEADER_XSS THEN Tampered(frame) ELSE { frame }

\* a sender without the length checks encodes a body with the key of the
\* decoder and the decoder decodes what arrives, both before or both after
\* the first frame of the direction.  Of the frame its first bytes are kept,
\* of the body and the result their lengths.
ProbeUnchecked ==
    /\ probe = NoCall
    /\ \E call \in UncheckedCalls, draw \in LimitDraws :
          \E sender \in { TxIn(rx.key, call[1]) },
             before \in { RxIn(rx.key, call[1]) } :
                \E enc \in { EncodeFrame(sender, call[2], draw[1], draw[2], draw[3]) } :
                   /\ enc.kind = "Ok"
                   /\ \E frame \in Handed(enc.bytes) :
                         \E dec \in { CtcpRx_decode(before, frame) } :
                            probe' = [call |-> "unchecked", key |-> rx.key,
                                      short |-> call[1], body_len |-> Len(call[2]),
                                      intact |-> (frame = enc.bytes),
                                      head |-> IF Len(frame) <= 4 * HEADER_XSS THEN frame
                                               ELSE Slice(frame, 0, 4 * HEADER_XSS),
                                      frame_len |-> Len(frame),
                                      result |-> dec.kind, out_len |-> Len(dec.bytes),
                                      after_short |-> dec.rx.short_only]
    /\ UNCHANGED codecVars
    /\ UNCHANGED prefixVars

\* ------------------------------------------------------------------------
\* The calls the adaptors hand to the inner transport
\* ------------------------------------------------------------------------
\* errors of the inner transport
InnerErrors == { "BrokenPipe" }

\* what a poll of the inner sink returns: Pending, Ready(Ok(())), Ready(Err(e))
InnerPolls == { "Pending", "Ok" } \cup InnerErrors

\* a call of CtcpTx that returns what the same call of the inner sink,
\* returning inner, returns
PassToSink(call, inner) ==
    /\ lastTx' = [call |-> call, inner |-> inner, result |-> inner, before |-> tx]
    /\ UNCHANGED << tx, rx, wire, accepted, yielded, encLog, lastRx,
                    txFailed, rxFailed, nsent, nbig, ncorrupt >>
    /\ UNCHANGED prefixVars
    /\ UNCHANGED probeVars

\* CtcpTx::poll_ready
PollReady == \E inner \in InnerPolls : PassToSink("poll_ready", inner)

\* CtcpTx::poll_flush
PollFlush == \E inner \in InnerPolls : PassToSink("poll_flush", inner)

\* CtcpTx::poll_close
PollClose == \E inner \in InnerPolls : PassToSink("poll_close", inner)

\* frames submitted while the inner transport misbehaves
AdaptorFrames == { << >>, << 0 >>, OverSizeFrame }

\* the aggregation core submits a frame; the inner sink accepts or refuses it
StartSendInner ==
    /\ nsent < MaxSends
    /\ \E item \in AdaptorFrames, draw \in Draws, inner_ok \in BOOLEAN :
          start_send(item, draw, inner_ok)

\* CtcpRx::poll_next when the inner stream returns inner, which is no frame,
\* and poll_next returns result
PassFromStream(inner, result) ==
    /\ lastRx' = [call |-> "poll_next", inner |-> inner, result |-> result,
                  before |-> rx]
    /\ UNCHANGED << tx, rx, wire, accepted, yielded, encLog, lastTx,
                    txFailed, rxFailed, nsent, nbig, ncorrupt >>
    /\ UNCHANGED prefixVars
    /\ UNCHANGED probeVars

\* poll_next that reports an error of the inner stream as the end of the stream
PollNextErrorAsEnd == \E e \in InnerErrors : PassFromStream(e, "None")

\* CtcpRx::poll_next when the inner stream yields Ready(Some(Err(e)))
PollNextError == \E e \in InnerErrors : PassFromStream(e, e)

\* CtcpRx::poll_next when the inner stream yields Ready(None)
PollNextNone == Len(wire) = 0 /\ PassFromStream("None", "None")

\* CtcpRx::poll_next when the inner stream returns Pending
PollNextPending == Len(wire) = 0 /\ PassFromStream("Pending", "Pending")

\* ------------------------------------------------------------------------
\* shuffle_bytes and unshuffle_bytes applied to one slice
\* ------------------------------------------------------------------------
MaxShuffleLen == 5

\* slices of distinct bytes, the empty slice and the one-byte slice included
ShuffleInputs == { AsBytes([i \in 1..n |-> i]) : n \in 0..MaxShuffleLen }

\* keys with small and large halves
ShuffleKeys ==
    Keys \cup { U32(h, l) : h \in { 0, 1, 21845, 43690, 65535 },
                            l \in { 0, 1, 2, 3, 77 } }

\* both functions are applied to one slice; one call is observed in a
\* behaviour
Shuffle ==
    /\ probe = NoCall
    /\ \E data \in ShuffleInputs, key \in ShuffleKeys :
          probe' = [call |-> "shuffle", data |-> data, key |-> key,
                    shuffled |-> shuffle_bytes(data, key),
                    unshuffled |-> unshuffle_bytes(data, key)]
    /\ UNCHANGED codecVars
    /\ UNCHANGED prefixVars

\* ------------------------------------------------------------------------
\* The byte transforms and the checksum applied to one slice
\* ------------------------------------------------------------------------
MaxBytesLen == 2

\* bytes at both ends of the range and around the base-94 escape limits
ByteSamples == { 0, 1, 92, 93, 185, 186, 255 }

\* key bytes, the low byte of the default key among them
KeyBytes == { 0, 1, mask_key(ToU32(DEFAULT_KEY)), 200 }

ByteInputs == UNION { [1..n -> ByteSamples] : n \in 0..MaxBytesLen }

\* slices for the checksum: the slice of the unit test, slices whose sum
\* carries once and twice, slices of odd length
ChecksumInputs ==
    ByteInputs \cup { << 62, 47, 40, 81 >>, << 255, 255, 255, 255, 0, 1 >>,
                      << 255, 255, 255 >>, << 128, 0, 128, 0, 1 >> }

\* delta_encode_in_place on a slice and delta_decode_in_place on the result
DeltaCall ==
    /\ probe = NoCall
    /\ \E data \in ByteInputs, key \in KeyBytes :
          \E encoded \in { delta_encode_in_place(data, key) } :
             probe' = [call |-> "delta", data |-> data, key |-> key,
                       encoded |-> encoded,
                       decoded |-> delta_decode_in_place(encoded, key)]
    /\ UNCHANGED codecVars
    /\ UNCHANGED prefixVars

\* base94_encode_into on a slice and base94_decode_into on the result
Base94Call ==
    /\ probe = NoCall
    /\ \E data \in ByteInputs, key \in KeyBytes :
          \E encoded \in { base94_encode_into(data, key) } :
             probe' = [call |-> "base94", data |-> data, key |-> key,
                       encoded |-> encoded,
                       decoded |-> base94_decode_into(encoded, key)]
    /\ UNCHANGED codecVars
    /\ UNCHANGED prefixVars

\* ip_standard_checksum and inet_checksum on a slice
ChecksumCall ==
    /\ probe = NoCall
    /\ \E data \in ChecksumInputs :
          probe' = [call |-> "checksum", data |-> data,
                    sum |-> ip_standard_checksum(data),
                    checksum |-> inet_checksum(data)]
    /\ UNCHANGED codecVars
    /\ UNCHANGED prefixVars

\* ------------------------------------------------------------------------
\* CtcpTx::encode applied to one frame
\* ------------------------------------------------------------------------
\* values of rng.next_u32(): both ends of the range and two mixed patterns
RawDraws == { U32(0, 0), U32(21845, 21845), U32(43690, 43690), U32(65535, 65535) }

\* frames without and with bytes that base 94 writes as two symbols
EncodeFrames == { << 0 >>, << 255, 65 >>, << 0, 93, 186, 255, 7 >> }

\* encode has returned enc for a frame of len bytes under the given draws
Encoded(enc, before, len, draws) ==
    /\ probe' = [call |-> "encode", key |-> before.key, short |-> before.short_only,
                 len |-> len, draws |-> draws, kind |-> enc.kind, prefix_len |-> enc.prefix_len,
                 payload_len |-> Len(enc.tx.payload), out_len |-> Len(enc.bytes),
                 after_short |-> enc.tx.short_only]
    /\ UNCHANGED codecVars
    /\ UNCHANGED prefixVars

\* the encoder, before or after its first frame, encodes a small frame; one
\* call is observed in a behaviour
EncodeCall ==
    /\ probe = NoCall
    /\ \E short \in BOOLEAN, item \in EncodeFrames,
          nonce_raw \in RawDraws, k_raw \in RawDraws, f_raw \in RawDraws :
             \E before \in { TxIn(tx.key, short) } :
                \E enc \in { CtcpTx_encode(before, item, nonce_raw, k_raw, f_raw) } :
                   Encoded(enc, before, Len(item), << nonce_raw, k_raw, f_raw >>)

\* the encoder, before or after its first frame, encodes a frame of the
\* largest size
EncodeLimitCall ==
    /\ probe = NoCall
    /\ \E short \in BOOLEAN, draw \in LimitDraws :
          \E before \in { TxIn(tx.key, short) } :
             \E enc \in { CtcpTx_encode(before, MaxSizeFrame, draw[1], draw[2], draw[3]) } :
                Encoded(enc, before, Len(MaxSizeFrame), draw)

\* ------------------------------------------------------------------------
\* Specifications
\* ------------------------------------------------------------------------
\* the codec over a transport that delivers what it accepted
Next == StartSend \/ PollNext

Spec == Init /\ [][Next]_vars

\* the codec over a transport that may damage frames
NextWire == StartSend \/ PollNext \/ Corrupt

SpecWire == Init /\ [][NextWire]_vars

\* the encoder half at the frame size limit
NextLimit == StartSendLimit

SpecLimit == Init /\ [][NextLimit]_vars

\* the prefix codec alone
NextPrefix == EncodePrefix \/ DecodePrefix

SpecPrefix == Init /\ [][NextPrefix]_vars

\* every call of the two adaptors over an inner transport that can refuse,
\* fail, end or have nothing ready
NextAdaptor ==
    \/ StartSendInner
    \/ PollReady
    \/ PollFlush
    \/ PollClose
    \/ PollNext
    \/ PollNextError
    \/ PollNextNone
    \/ PollNextPending

SpecAdaptor == Init /\ [][NextAdaptor]_vars

\* single decode calls on frames of every origin
NextDecode == Probe

SpecDecode == Init /\ [][NextDecode]_vars

\* the byte transforms and the checksum alone
NextBytes == DeltaCall \/ Base94Call \/ ChecksumCall

SpecBytes == Init /\ [][NextBytes]_vars

\* single encode calls
NextEncode == EncodeCall \/ EncodeLimitCall

SpecEncode == Init /\ [][NextEncode]_vars

\* single decode calls on frames of a sender without length checks
NextUnchecked == ProbeUnchecked

SpecUnchecked == Init /\ [][NextUnchecked]_vars

\* the same frame handed to two decoders
NextPair == ProbePair

SpecPair == Init /\ [][NextPair]_vars

\* the byte shuffle alone
NextShuffle == Shuffle

SpecShuffle == Init /\ [][NextShuffle]_vars

\* ------------------------------------------------------------------------
\* Properties
\* ------------------------------------------------------------------------
\* C1: whatever the key, the frame of 1 to 65536 bytes and the random draws,
\* a fresh encoder encodes the frame and a fresh decoder with the same key
\* decodes the output to the frame.
C1_RoundTrip ==
    (/\ lastTx.call = "start_send"
     /\ lastTx.before = CtcpTx_new(tx.key)
     /\ lastTx.len >= 1
     /\ lastTx.len <= MAX_FRAME)
    => /\ lastTx.encode = "Ok"
       /\ LET dec == CtcpRx_decode(CtcpRx_new(tx.key), lastTx.bytes)
          IN dec.kind = "Ok" /\ dec.bytes = accepted[Len(accepted)]

\* C2: every byte of every encoder output lies in 0x20..0x7e, whatever the
\* key, the frame, the flag and the draws.
C2_Printable ==
    (lastTx.call = "start_send" /\ lastTx.encode = "Ok")
    => \A i \in 1..Len(lastTx.bytes) :
          lastTx.bytes[i] >= 32 /\ lastTx.bytes[i] <= 126

\* an output in short mode in which a byte took two symbols
C2_Witness ==
    /\ lastTx.call = "start_send"
    /\ lastTx.encode = "Ok"
    /\ lastTx.before.short_only
    /\ Len(lastTx.bytes) > lastTx.prefix_len + HEADER_MSS + lastTx.len

\* C3: over a transport that delivers the frames it accepted, in order, the
\* decoder yields the submitted frames in the order they were submitted,
\* no decode fails, and once every accepted frame is decoded the two halves
\* hold the same short_only.
C3_InOrder ==
    /\ ~rxFailed
    /\ Len(yielded) + Len(wire) = Len(accepted)
    /\ yielded = SubSeq(accepted, 1, Len(yielded))
    /\ (wire = << >> => tx.short_only = rx.short_only)

\* three frames, empty and non-empty, went through
C3_Witness ==
    /\ Len(yielded) >= 3
    /\ wire = << >>
    /\ yielded[1] # yielded[2]
    /\ yielded[2] # yielded[3]
    /\ rx.short_only

\* C4: the first successful encode of a non-empty frame carries the long
\* prefix, verification tail included, and leaves short_only true; every
\* later one carries a prefix strictly shorter than the long one, the same
\* length for each of them.
C4_LongThenShort ==
    Len(encLog) >= 1
    => /\ tx.short_only
       /\ encLog[1].prefix_len = HEADER_XSS + HEADER_MSS
       /\ encLog[1].tail
       /\ \A i \in 2..Len(encLog) :
             /\ encLog[i].prefix_len < encLog[1].prefix_len
             /\ encLog[i].prefix_len = encLog[2].prefix_len

\* three non-empty frames were encoded
C4_Witness == Len(encLog) >= 3 /\ encLog[3].prefix_len = HEADER_XSS

\* C5: short_only starts false in both halves and no call, successful or
\* failing, empty or not, takes it from true back to false.
C5_Monotonic ==
    /\ ~tx.short_only /\ ~rx.short_only
    /\ [][/\ tx.short_only => tx'.short_only
          /\ rx.short_only => rx'.short_only]_vars

\* both halves have failed a call while their flag was set
C5_Witness ==
    /\ lastTx.call = "start_send"
    /\ lastTx.before.short_only
    /\ lastTx.encode # "Ok"
    /\ tx.short_only
    /\ lastRx.call = "poll_next"
    /\ lastRx.before.short_only
    /\ lastRx.result # "Ok"
    /\ rx.short_only

\* C6: a fresh decoder fed the prefixes a fresh encoder produced for frame
\* payload lengths returns the encoded length each time, consuming the long
\* prefix for the first and the short prefix for the later ones, and its
\* short_only is true from the first success on.
C6_DecodeFollowsEncode ==
    (\A j \in 1..Len(penc) : penc[j].payload_len <= MaxPayload)
    => LET produced == SelectSeq(penc, LAMBDA e : e.kind = "Ok")
       IN /\ \A i \in 1..Len(pdec) :
                /\ pdec[i].kind = "Ok"
                /\ pdec[i].length = produced[i].payload_len
                /\ pdec[i].used = IF i = 1 THEN HEADER_XSS + HEADER_MSS
                                  ELSE HEADER_XSS
                /\ pdec[i].short_only
          /\ (Len(pdec) >= 1 => prx.short_only)

\* three prefixes for the same length were decoded
C6_Witness ==
    /\ Len(pdec) >= 3
    /\ pdec[1].length = pdec[2].length
    /\ pdec[2].length = pdec[3].length
    /\ pdec[3].used = HEADER_XSS

\* C7 as the specification states it: three consecutive encodes of length
\* 128 from a fresh encoder emit 6, then 3, then 3 bytes.
C7_SixThreeThree ==
    (/\ Len(penc) >= 3
     /\ \A i \in 1..3 : penc[i].payload_len = 128 /\ penc[i].kind = "Ok")
    => /\ penc[1].len = 6
       /\ penc[2].len = 3
       /\ penc[3].len = 3

\* C7: the long prefix is 7 bytes and the short prefix is 4 bytes; three
\* consecutive encodes of length 128 from a fresh encoder emit 7, then 4,
\* then 4 bytes, and with the default key all three succeed.
C7_SevenFourFour ==
    /\ \A i \in 1..Len(penc) :
          penc[i].kind = "Ok" => penc[i].len = IF penc[i].long THEN 7 ELSE 4
    /\ (/\ Len(penc) >= 3
        /\ \A i \in 1..3 : penc[i].payload_len = 128)
       => /\ tx.key = ToU32(DEFAULT_KEY) => \A i \in 1..3 : penc[i].kind = "Ok"
          /\ (\A i \in 1..3 : penc[i].kind = "Ok")
             => /\ penc[1].len = 7
                /\ penc[2].len = 4
                /\ penc[3].len = 4

\* three consecutive encodes of length 128 with the default key
C7_Witness ==
    /\ Len(penc) >= 3
    /\ \A i \in 1..3 : penc[i].payload_len = 128 /\ penc[i].kind = "Ok"
    /\ tx.key = ToU32(DEFAULT_KEY)

\* C8: a codec error is fatal: once decode has failed the receive half
\* yields no further frame, and once encode has failed the send half
\* forwards no further frame.
C8_Fatal ==
    [][/\ rxFailed => yielded' = yielded
       /\ txFailed => accepted' = accepted]_vars

\* C9: a frame longer than 65536 bytes fails with InvalidData whatever the
\* flag, nothing is forwarded and short_only stays as it was; a frame of
\* exactly 65536 bytes is accepted and forwarded.
C9_FrameLimit ==
    [][nsent' = nsent + 1
       => /\ lastTx'.len > 65536
             => /\ lastTx'.encode = "InvalidData"
                /\ lastTx'.result = "InvalidData"
                /\ wire' = wire
                /\ accepted' = accepted
                /\ tx'.short_only = tx.short_only
          /\ lastTx'.len = 65536
             => /\ lastTx'.result = "Ok"
                /\ wire' = Append(wire, lastTx'.bytes)
                /\ Len(accepted') = Len(accepted) + 1]_vars

\* a one-byte frame was accepted and a frame longer than 65536 bytes was
\* then refused while the flag was set
C9_Witness ==
    /\ lastTx.call = "start_send"
    /\ lastTx.len > 65536
    /\ lastTx.result = "InvalidData"
    /\ lastTx.before.short_only
    /\ accepted = << << 0 >> >>

\* C10: an empty frame passes through both halves as an empty frame: the
\* encoder returns an empty output, draws nothing from the rng and leaves
\* short_only alone, the decoder returns an empty frame and leaves
\* short_only alone, and after an empty first frame the first non-empty
\* frame still carries the long prefix.
C10_EmptyPassThrough ==
    /\ (lastTx.call = "start_send" /\ lastTx.len = 0)
       => /\ lastTx.encode = "Ok"
          /\ lastTx.bytes = << >>
          /\ tx.rng = lastTx.before.rng
          /\ tx.short_only = lastTx.before.short_only
    /\ (lastRx.call = "poll_next" /\ lastRx.frame = << >>)
       => /\ lastRx.result = "Ok"
          /\ lastRx.bytes = << >>
          /\ rx.short_only = lastRx.before.short_only
    /\ (/\ Len(accepted) >= 1
        /\ accepted[1] = << >>
        /\ Len(encLog) >= 1)
       => /\ encLog[1].prefix_len = HEADER_XSS + HEADER_MSS
          /\ encLog[1].tail

\* an empty first frame was decoded, a non-empty frame followed and an
\* empty frame was submitted with the flag set
C10_Witness ==
    /\ Len(yielded) >= 1
    /\ yielded[1] = << >>
    /\ Len(encLog) >= 1
    /\ lastTx.call = "start_send"
    /\ lastTx.len = 0
    /\ lastTx.before.short_only

\* ------------------------------------------------------------------------
\* Single decode calls
\* ------------------------------------------------------------------------
\* the length prefix of the frame handed to the decoder, as the decoder
\* reads it
ProbePre ==
    decode_length_prefix(probe.frame, probe.before.key, probe.before.header_buf,
                         probe.before.short_only)

\* the bytes behind the prefix, taken out of base 94
ProbeBody ==
    base94_decode_into(Slice(probe.frame, ProbePre.used, Len(probe.frame)),
                       mask_key(probe.before.key))

\* the length the body header declares: its 16-bit value plus one
ProbeDeclared ==
    LET key_byte == mask_key(probe.before.key)
        header_slice == delta_decode_in_place(Slice(ProbeBody.out, 0, HEADER_MSS), key_byte)
        frame_key_full == XorU32(probe.before.key, header_slice[1])
        tail == mask_bytes(unshuffle_bytes(Slice(header_slice, 1, HEADER_MSS),
                                           frame_key_full),
                           mask_key(frame_key_full))
    IN ((tail[1] * 256) + tail[2]) + 1

\* the frame has exactly the length its prefix announces and its body
\* decodes to a header and some bytes
ProbeBodyRead ==
    /\ probe.call = "decode"
    /\ ProbePre.kind = "Ok"
    /\ Len(probe.frame) = ProbePre.used + ProbePre.length
    /\ ProbeBody.kind = "Ok"
    /\ Len(ProbeBody.out) >= HEADER_MSS

\* C11: a decode of a non-empty frame returns the complete payload or an
\* error with no bytes: UnexpectedEof for a frame shorter than prefix plus
\* announced payload, InvalidData for a longer one, InvalidData when the
\* declared body length differs from the number of decoded body bytes.
C11_AllOrNothing ==
    probe.call = "decode" =>
        /\ probe.result \in { "Ok", "UnexpectedEof", "InvalidData" }
        /\ probe.result # "Ok" => probe.bytes = << >>
        /\ ProbePre.kind = "Ok" =>
              /\ Len(probe.frame) < ProbePre.used + ProbePre.length
                    => probe.result = "UnexpectedEof"
              /\ Len(probe.frame) > ProbePre.used + ProbePre.length
                    => probe.result = "InvalidData"
        /\ ProbeBodyRead =>
              IF ProbeDeclared = Len(ProbeBody.out) - HEADER_MSS
              THEN probe.result = "Ok" /\ Len(probe.bytes) = ProbeDeclared
              ELSE probe.result = "InvalidData"

\* a frame whose declared body length differs from its decoded body bytes
\* is refused as invalid data
C11_Witness ==
    /\ ProbeBodyRead
    /\ ProbeDeclared # Len(ProbeBody.out) - HEADER_MSS
    /\ probe.result = "InvalidData"
    /\ probe.bytes = << >>

\* C12: the decoder refuses every non-empty frame that holds a byte outside
\* 0x20..0x7e, in the prefix (its first byte k and the discarded byte f
\* included) or in the payload, with InvalidData or UnexpectedEof, in both
\* prefix modes.
C12_RejectsNonPrintable ==
    (/\ probe.call = "decode"
     /\ \E i \in 1..Len(probe.frame) :
           probe.frame[i] < PRINTABLE_START \/ probe.frame[i] > PRINTABLE_END)
        => probe.result \in { "InvalidData", "UnexpectedEof" }

\* the decoder is handed, untouched, a frame of a peer with its own key
ProbeSameKey ==
    /\ probe.call = "decode"
    /\ probe.enc_key = probe.before.key
    /\ probe.frame = probe.sent

\* C13: a decoder still in long mode fails on every short-prefixed frame of
\* an encoder with the same key and a decoder in short mode fails on every
\* long-prefixed one, so the first two frames of a direction delivered in
\* swapped order give an error for the first delivered frame.
C13_ReorderFails ==
    (/\ ProbeSameKey
     /\ \/ probe.prefix_len = HEADER_XSS /\ ~probe.before.short_only
        \/ probe.prefix_len = HEADER_XSS + HEADER_MSS /\ probe.before.short_only)
        => probe.result # "Ok"

\* the second frame of a direction reaches a fresh decoder and is refused
C13_Witness ==
    /\ ProbeSameKey
    /\ probe.enc_short /\ probe.prefix_len = HEADER_XSS
    /\ probe.before = CtcpRx_new(probe.enc_key)
    /\ probe.result # "Ok"

\* C14: the two halves made by wrap_stream are independent: an encode on
\* the CtcpTx half leaves short_only and the buffers of the CtcpRx half as
\* they were, a decode on the CtcpRx half leaves short_only of the CtcpTx
\* half as it was, under every interleaving of sends and receives.
C14_Independent ==
    [][/\ nsent' # nsent => rx' = rx
       /\ Len(wire') < Len(wire) => tx'.short_only = tx.short_only]_vars

\* the sender is in short mode while the receive half has decoded a frame
\* and is still in long mode
C14_Witness ==
    /\ tx.short_only
    /\ ~rx.short_only
    /\ lastRx.call = "poll_next"
    /\ lastTx.call = "start_send"

\* C16: when the key of the decoder differs from the key of the encoder,
\* every decode of a non-empty encoded frame fails.
C16_KeyMismatchFails ==
    (/\ probe.call = "decode"
     /\ probe.frame = probe.sent
     /\ probe.enc_key # probe.before.key)
        => probe.result # "Ok"

\* the verification tail of the frame handed to the decoder, as a number
ProbeTail ==
    base94_decimal_decode(
        unshuffle_bytes(Slice(probe.frame, HEADER_XSS, HEADER_XSS + HEADER_MSS),
                        probe.before.key))

\* the four header bytes of the frame handed to the decoder, read alone
ProbeHead ==
    DecodeShortPrefix(probe.frame, probe.before.key, probe.before.header_buf)

\* the tail holds the checksum of the four raw header bytes XOR the length
ProbeTailMatches ==
    /\ ProbeHead.kind = "Ok"
    /\ ProbeTail.kind = "Ok"
    /\ (ProbeTail.value + HEADER_MSS_MOD - ModM(probe.before.key)) % HEADER_MSS_MOD
          = Xor(inet_checksum(Slice(probe.frame, 0, HEADER_XSS)), ProbeHead.length)

\* C17: in long mode decode_length_prefix accepts a prefix only if its
\* verification value equals the checksum of the four raw header bytes XOR
\* the length; every other tail is refused with InvalidData and leaves
\* short_only false.
C17_TailVerified ==
    (/\ probe.call = "decode"
     /\ ~probe.before.short_only
     /\ Len(probe.frame) >= HEADER_XSS + HEADER_MSS)
        => /\ ProbePre.kind = "Ok" <=> ProbeTailMatches
           /\ ProbePre.kind = "Ok" => ProbePre.length = ProbeHead.length
           /\ ~ProbeTailMatches => /\ ProbePre.kind = "InvalidData"
                                   /\ ~ProbePre.short_only
                                   /\ probe.result = "InvalidData"
                                   /\ ~probe.after.short_only

\* a well-formed tail that holds another value is refused
C17_Witness ==
    /\ probe.call = "decode"
    /\ ~probe.before.short_only
    /\ Len(probe.frame) >= HEADER_XSS + HEADER_MSS
    /\ ProbeHead.kind = "Ok"
    /\ ProbeTail.kind = "Ok"
    /\ ~ProbeTailMatches
    /\ probe.result = "InvalidData"
    /\ ~probe.after.short_only

\* ------------------------------------------------------------------------
\* The length prefix
\* ------------------------------------------------------------------------
\* C18: for every key, every payload length from 1 to HEADER_MSS_MOD - 1,
\* every draw and both modes encode_length_prefix succeeds, and
\* decode_length_prefix in the same mode returns exactly the length and the
\* number of bytes emitted.
C18_PrefixRoundTrip ==
    /\ \A j \in 1..Len(penc) : penc[j].kind = "Ok"
    /\ \A i \in 1..Len(pdec) :
          /\ pdec[i].kind = "Ok"
          /\ pdec[i].length = penc[i].payload_len
          /\ pdec[i].used = penc[i].len

\* the length of a recorded encode_length_prefix call, offset by the key
Offset(e) == (e.payload_len + ModM(tx.key)) % HEADER_MSS_MOD

\* the offset length has fewer than three digits, so that the first length
\* digit f is the fill byte 0x20
Padded(e) == Offset(e) < BASE94 * BASE94

\* the byte the rng draw k_raw gives for k
DrawnK(e) == random_range(e.k_raw, PRINTABLE_START, PRINTABLE_END)

\* C19 as the specification states it: a zero-padded first length digit f
\* gives an emitted k with low bit 1 and a random f; any other f gives an
\* emitted k with low bit 0 and is kept.
C19_OddWhenPadded ==
    \A i \in 1..Len(penc) :
        penc[i].kind = "Ok" =>
            IF Padded(penc[i])
            THEN /\ LowBit(penc[i].bytes[1]) = 1
                 /\ penc[i].bytes[2]
                       = random_range(penc[i].f_raw, PRINTABLE_START, PRINTABLE_END)
            ELSE /\ LowBit(penc[i].bytes[1]) = 0
                 /\ penc[i].bytes[2] = base94_decimal_encode(Offset(penc[i]))[1]

\* C19: a zero-padded first length digit f gives an emitted k with low bit
\* 0 (an odd draw is incremented) and f is replaced by a random byte of
\* 0x20..0x7d; any other f gives an emitted k with low bit 1 (an even draw
\* is incremented, never past 0x7d) and f is kept.
C19_EvenWhenPadded ==
    \A i \in 1..Len(penc) :
        penc[i].kind = "Ok" =>
            IF Padded(penc[i])
            THEN /\ LowBit(penc[i].bytes[1]) = 0
                 /\ penc[i].bytes[1] = DrawnK(penc[i]) + LowBit(DrawnK(penc[i]))
                 /\ penc[i].bytes[2]
                       = random_range(penc[i].f_raw, PRINTABLE_START, PRINTABLE_END)
                 /\ penc[i].bytes[2] < PRINTABLE_END
            ELSE /\ LowBit(penc[i].bytes[1]) = 1
                 /\ penc[i].bytes[1] = DrawnK(penc[i]) + (1 - LowBit(DrawnK(penc[i])))
                 /\ penc[i].bytes[1] < PRINTABLE_END
                 /\ penc[i].bytes[2] = base94_decimal_encode(Offset(penc[i]))[1]

\* a padded length was encoded with an odd draw for k, which was incremented
C19_Witness ==
    \E i \in 1..Len(penc) :
        /\ penc[i].kind = "Ok"
        /\ Padded(penc[i])
        /\ LowBit(DrawnK(penc[i])) = 1
        /\ penc[i].bytes[1] = DrawnK(penc[i]) + 1

\* ------------------------------------------------------------------------
\* The byte shuffle
\* ------------------------------------------------------------------------
\* ((i XOR key) * len) >> 32 with i XOR key as a 32-bit number
MultiplyShiftIndex(i, key, len) ==
    ((key.hi * len) + ((Xor(key.lo, i) * len) \div W16)) \div W16

\* the index of the swap partner of i: the remainder or the multiply-shift
SwapPartner(i, key, len, modulo) ==
    IF modulo THEN ShuffleIndexModulo(i, key, len)
    ELSE MultiplyShiftIndex(i, key, len)

RECURSIVE SwapsAscending(_, _, _, _)
\* data[i] swapped with its partner for i, i + 1, .. , len - 1 in this order
SwapsAscending(data, key, i, modulo) ==
    IF i >= Len(data) THEN data
    ELSE SwapsAscending(SwapAt(data, i, SwapPartner(i, key, Len(data), modulo)),
                        key, i + 1, modulo)

RECURSIVE SwapsDescending(_, _, _, _)
\* data[i] swapped with its partner for i, i - 1, .. , 0 in this order
SwapsDescending(data, key, i, modulo) ==
    IF i < 0 THEN data
    ELSE SwapsDescending(SwapAt(data, i, SwapPartner(i, key, Len(data), modulo)),
                         key, i - 1, modulo)

\* C20 as the specification states it: shuffle_bytes swaps data[i] with
\* data[j], j = (i XOR K) mod len in 32-bit arithmetic, for i ascending;
\* unshuffle_bytes makes the same swaps for i descending.
C20_ModuloSwaps ==
    probe.call = "shuffle" =>
        /\ probe.shuffled = SwapsAscending(probe.data, probe.key, 0, TRUE)
        /\ probe.unshuffled
              = SwapsDescending(probe.data, probe.key, Len(probe.data) - 1, TRUE)

\* C20: shuffle_bytes swaps data[i] with data[j], j = ((i XOR K) * len) >> 32
\* with the product taken in 64 bits, for i ascending; unshuffle_bytes makes
\* the same swaps for i descending and so undoes shuffle_bytes.
C20_MultiplyShiftSwaps ==
    probe.call = "shuffle" =>
        /\ probe.shuffled = SwapsAscending(probe.data, probe.key, 0, FALSE)
        /\ probe.unshuffled
              = SwapsDescending(probe.data, probe.key, Len(probe.data) - 1, FALSE)
        /\ unshuffle_bytes(probe.shuffled, probe.key) = probe.data

\* a slice that the two functions rearrange differently
C20_Witness ==
    /\ probe.call = "shuffle"
    /\ probe.shuffled # probe.data
    /\ probe.unshuffled # probe.data
    /\ probe.shuffled # probe.unshuffled

\* ------------------------------------------------------------------------
\* The adaptors
\* ------------------------------------------------------------------------
\* C15: the adaptors forward the inner transport one-to-one: poll_ready,
\* poll_flush and poll_close return what the inner sink returns; start_send
\* calls the inner start_send once for a frame that encoded and not at all
\* for one that did not; poll_next yields one item for each item of the
\* inner stream and passes an inner error, the end of the stream and
\* Pending through unchanged, leaving short_only as it was in these three
\* cases.
C15_OneToOne ==
    /\ [](/\ lastTx.call \in { "poll_ready", "poll_flush", "poll_close" }
             => lastTx.result = lastTx.inner /\ tx = lastTx.before
          /\ lastTx.call = "start_send"
             => /\ lastTx.inner_calls = IF lastTx.encode = "Ok" THEN 1 ELSE 0
                /\ lastTx.encode = "Ok" => lastTx.result = lastTx.inner
                /\ lastTx.encode # "Ok" => lastTx.result = lastTx.encode
          /\ lastRx.call = "poll_next"
             => IF lastRx.inner = "Item"
                THEN lastRx.result \in { "Ok", "UnexpectedEof", "InvalidData" }
                ELSE /\ lastRx.result = lastRx.inner
                     /\ rx.short_only = lastRx.before.short_only)
    /\ [][/\ Len(wire') < Len(wire)
             => /\ Len(wire') = Len(wire) - 1
                /\ lastRx'.inner = "Item"
                /\ Len(yielded') = Len(yielded) + IF lastRx'.result = "Ok" THEN 1 ELSE 0
          /\ (lastRx' # lastRx /\ lastRx'.inner # "Item")
             => /\ wire' = wire
                /\ yielded' = yielded
                /\ rx' = rx
          /\ Len(wire') > Len(wire)
             => /\ Len(wire') = Len(wire) + 1
                /\ lastTx'.call = "start_send"
                /\ lastTx'.inner = "Ok"]_vars

\* a decoder in short mode has passed Pending through and the encoder an
\* error of poll_close, after a submitted frame that was not accepted
C15_Witness ==
    /\ lastRx.call = "poll_next"
    /\ lastRx.inner = "Pending" /\ lastRx.result = "Pending"
    /\ rx.short_only
    /\ lastTx.call = "poll_close"
    /\ lastTx.inner \in InnerErrors /\ lastTx.result \in InnerErrors
    /\ Len(yielded) >= 1
    /\ Len(accepted) < nsent

\* C21: unshuffle_bytes inverts shuffle_bytes for every slice, the empty
\* and the one-byte slice included, and every key, and every swap index
\* stays inside the slice.
C21_UnshuffleInverts ==
    probe.call = "shuffle" =>
        /\ unshuffle_bytes(shuffle_bytes(probe.data, probe.key), probe.key) = probe.data
        /\ Len(probe.shuffled) = Len(probe.data)
        /\ \A i \in 0..(Len(probe.data) - 1) :
              /\ ShuffleIndex(i, probe.key, Len(probe.data)) >= 0
              /\ ShuffleIndex(i, probe.key, Len(probe.data)) < Len(probe.data)

\* a slice that shuffle_bytes rearranged, that a second shuffle_bytes does
\* not restore and that unshuffle_bytes restores
C21_Witness ==
    /\ probe.call = "shuffle"
    /\ probe.shuffled # probe.data
    /\ shuffle_bytes(probe.shuffled, probe.key) # probe.data
    /\ unshuffle_bytes(probe.shuffled, probe.key) = probe.data

\* ------------------------------------------------------------------------
\* The byte transforms and the checksum
\* ------------------------------------------------------------------------
\* C22: delta_decode_in_place inverts delta_encode_in_place for every slice
\* and every key byte; the encoder takes the key off the first byte and
\* replaces each later byte by its wrapping difference from the byte that
\* stood before it in the input.
C22_DeltaInverts ==
    probe.call = "delta" =>
        /\ probe.decoded = probe.data
        /\ Len(probe.encoded) = Len(probe.data)
        /\ \A i \in 1..Len(probe.data) :
              probe.encoded[i]
                 = IF i = 1 THEN (probe.data[1] + 256 - probe.key) % 256
                   ELSE (probe.data[i] + 256 - probe.data[i - 1]) % 256

\* a slice of two bytes, the second below the first, with a key above the
\* first: both differences wrap
C22_Witness ==
    /\ probe.call = "delta"
    /\ Len(probe.data) = 2
    /\ probe.data[2] < probe.data[1]
    /\ probe.data[1] < probe.key
    /\ probe.decoded = probe.data
    /\ probe.encoded # probe.data

\* the bytes of data that base94_encode_into writes as two symbols
Escaped(data, key) ==
    { i \in 1..Len(data) : (data[i] + 256 - key) % 256 >= BASE93 }

\* C23: base94_encode_into emits one or two printable bytes for each input
\* byte, base94_decode_into of the output succeeds and returns the input,
\* distinct inputs give distinct outputs, and the decoded length is the
\* number of symbols minus the number of two-byte escapes.
C23_Base94Inverts ==
    probe.call = "base94" =>
        /\ Len(probe.encoded)
              = Len(probe.data) + Cardinality(Escaped(probe.data, probe.key))
        /\ \A i \in 1..Len(probe.data) :
              Len(base94_encode_into(<< probe.data[i] >>, probe.key)) \in { 1, 2 }
        /\ \A i \in 1..Len(probe.encoded) :
              /\ probe.encoded[i] >= PRINTABLE_START
              /\ probe.encoded[i] <= PRINTABLE_END
        /\ probe.decoded.kind = "Ok"
        /\ probe.decoded.out = probe.data
        /\ \A other \in ByteInputs :
              other # probe.data
                 => base94_encode_into(other, probe.key) # probe.encoded
        /\ Len(probe.decoded.out)
              = Len(probe.encoded) - Base94Validate(probe.encoded, 1, 0).escapes

\* a slice of one escaped and one plain byte, written as three symbols
C23_Witness ==
    /\ probe.call = "base94"
    /\ Len(probe.data) = 2
    /\ Cardinality(Escaped(probe.data, probe.key)) = 1
    /\ Len(probe.encoded) = 3
    /\ probe.decoded.out = probe.data

RECURSIVE Words(_, _)
\* the big-endian 16-bit words of data[index..], a trailing odd byte being
\* the high byte of a last word
Words(data, index) ==
    IF index > Len(data) THEN << >>
    ELSE IF index = Len(data) THEN << data[index] * 256 >>
    ELSE << (data[index] * 256) + data[index + 1] >> \o Words(data, index + 2)

RECURSIVE OnesComplementSum(_, _)
\* the 16-bit one's-complement sum of words[index..]: each carry out of bit
\* 15 is added back in at bit 0
OnesComplementSum(words, index) ==
    IF index > Len(words) THEN 0
    ELSE LET t == words[index] + OnesComplementSum(words, index + 1)
         IN IF t >= W16 THEN (t - W16) + 1 ELSE t

\* C24: inet_checksum is the bitwise NOT of the 16-bit one's-complement sum
\* of the data read as big-endian 16-bit words, an odd trailing byte being
\* a high byte; the two carry folds leave a value that fits 16 bits; the
\* checksum of 3e 2f 28 51 is 0x997f.
C24_Checksum ==
    probe.call = "checksum" =>
        /\ probe.sum = OnesComplementSum(Words(probe.data, 1), 1)
        /\ probe.sum >= 0 /\ probe.sum < W16
        /\ probe.checksum = (W16 - 1) - probe.sum
        /\ probe.checksum >= 0 /\ probe.checksum < W16
        /\ probe.data = << 62, 47, 40, 81 >> => probe.checksum = 39295

\* the slice of the unit test, and a slice whose sum needs the second fold
C24_Witness ==
    /\ probe.call = "checksum"
    /\ \/ probe.data = << 62, 47, 40, 81 >> /\ probe.checksum = 39295
       \/ /\ probe.data = << 255, 255, 255, 255, 0, 1 >>
          /\ probe.sum = 1

\* ------------------------------------------------------------------------
\* The flags and the errors
\* ------------------------------------------------------------------------
\* C25 as stated: short_only of the encoder becomes true only in a
\* start_send of a long-prefixed frame that the inner sink accepted, so a
\* short-prefixed frame is forwarded only after an accepted long-prefixed
\* one.
C25_FlagNeedsAcceptance ==
    [][(~tx.short_only /\ tx'.short_only)
          => /\ lastTx'.call = "start_send"
             /\ lastTx'.prefix_len = HEADER_XSS + HEADER_MSS
             /\ lastTx'.result = "Ok"]_vars

\* C25: short_only of the encoder becomes true in the start_send whose
\* encode produced a long prefix, whether the inner sink then accepts the
\* frame or returns an error, and in no other call.
C25_FlagFollowsEncode ==
    [][/\ (~tx.short_only /\ tx'.short_only)
             => /\ lastTx'.call = "start_send"
                /\ lastTx'.prefix_len = HEADER_XSS + HEADER_MSS
                /\ lastTx'.encode = "Ok"
                /\ nsent' = nsent + 1
       /\ (/\ nsent' = nsent + 1
           /\ lastTx'.encode = "Ok"
           /\ lastTx'.prefix_len = HEADER_XSS + HEADER_MSS)
             => ~tx.short_only /\ tx'.short_only]_vars

\* the only frame the inner sink accepted carries a short prefix: the
\* long-prefixed frame before it was refused
C25_Witness ==
    /\ lastTx.call = "start_send"
    /\ lastTx.result = "Ok"
    /\ lastTx.prefix_len = HEADER_XSS
    /\ Len(accepted) = 1
    /\ Len(encLog) = 2
    /\ encLog[1].prefix_len = HEADER_XSS + HEADER_MSS

\* C26 as stated: a decode that returns an error leaves short_only of the
\* decoder as it was, also when the long prefix verifies and a later check
\* fails.
C26_ErrorKeepsFlag ==
    (probe.call = "decode" /\ probe.result # "Ok")
        => probe.after.short_only = probe.before.short_only

\* C26: a decode that returns an error leaves short_only as it was unless
\* the decoder was in long mode and the long prefix verified; then
\* short_only is true after the call although a later check (frame length,
\* base-94 symbols, header size, body length) failed.
C26_ErrorAfterPrefixSetsFlag ==
    (probe.call = "decode" /\ probe.result # "Ok")
        => probe.after.short_only
              = (\/ probe.before.short_only
                 \/ /\ Len(probe.frame) >= HEADER_XSS + HEADER_MSS
                    /\ ProbeTailMatches)

\* a decoder in long mode refuses a frame whose prefix verifies and is in
\* short mode afterwards
C26_Witness ==
    /\ probe.call = "decode"
    /\ probe.result # "Ok"
    /\ ~probe.before.short_only
    /\ Len(probe.frame) >= HEADER_XSS + HEADER_MSS
    /\ ProbeTailMatches
    /\ probe.after.short_only

\* ------------------------------------------------------------------------
\* Single encode calls
\* ------------------------------------------------------------------------
\* C27: with the default key the encode of every frame of 1 to 65536 bytes
\* succeeds for every draw and in both flag states.  The offset of the
\* default key has three digits, and the verification value of a payload
\* length below 2^18 plus that offset stays below HEADER_MSS_MOD, so that
\* neither number written can have another digit count than three.
C27_DefaultKeyEncodes ==
    /\ ModM(ToU32(DEFAULT_KEY)) >= BASE94 * BASE94
    /\ MaxPayload < 262144
    /\ 262144 + ModM(ToU32(DEFAULT_KEY)) <= HEADER_MSS_MOD
    /\ (/\ probe.call = "encode"
        /\ probe.key = ToU32(DEFAULT_KEY)
        /\ probe.len >= 1 /\ probe.len <= MAX_FRAME)
          => /\ probe.kind = "Ok"
             /\ probe.prefix_len = IF probe.short THEN HEADER_XSS
                                   ELSE HEADER_XSS + HEADER_MSS
             /\ probe.out_len = probe.prefix_len + probe.payload_len
             /\ probe.after_short

\* a frame of 65536 bytes encoded with the default key and a long prefix
C27_Witness ==
    /\ probe.call = "encode"
    /\ probe.key = ToU32(DEFAULT_KEY)
    /\ probe.len = MAX_FRAME
    /\ ~probe.short
    /\ probe.kind = "Ok"
    /\ probe.prefix_len = HEADER_XSS + HEADER_MSS

\* C28: for every key and every frame of 1 to 65536 bytes the base-94
\* payload handed to encode_length_prefix has between |D| + 3 and
\* 2 * (|D| + 3) symbols, which is more than 0 and less than HEADER_MSS_MOD,
\* the two lengths encode_length_prefix rejects before it writes a digit.
C28_PayloadLengthInRange ==
    /\ 2 * (MAX_FRAME + HEADER_MSS) < HEADER_MSS_MOD
    /\ (/\ probe.call = "encode"
        /\ probe.len >= 1 /\ probe.len <= MAX_FRAME)
          => /\ probe.len + HEADER_MSS <= probe.payload_len
             /\ probe.payload_len <= 2 * (probe.len + HEADER_MSS)
             /\ 0 < probe.payload_len
             /\ probe.payload_len < HEADER_MSS_MOD

\* a frame of which some bytes took one symbol and some two, under a key
\* other than the default
C28_Witness ==
    /\ probe.call = "encode"
    /\ probe.key # ToU32(DEFAULT_KEY)
    /\ probe.len = 5
    /\ probe.payload_len > probe.len + HEADER_MSS
    /\ probe.payload_len < 2 * (probe.len + HEADER_MSS)

\* ------------------------------------------------------------------------
\* The size of what decode returns
\* ------------------------------------------------------------------------
\* C29: a decode of a non-empty frame that returns Ok returns 1 to 65536
\* bytes, for intact and damaged frames, and for frames of a sender that
\* checks no length.
C29_DecodedSizeInRange ==
    (/\ probe.call = "unchecked"
     /\ probe.frame_len > 0
     /\ probe.result = "Ok")
       => (probe.out_len >= 1 /\ probe.out_len <= MAX_FRAME)

\* a frame carrying 65536 bytes is decoded to 65536 bytes
C29_Witness ==
    /\ probe.call = "unchecked"
    /\ probe.frame_len > 0
    /\ probe.body_len = MAX_FRAME
    /\ probe.result = "Ok"
    /\ probe.out_len = MAX_FRAME

\* ------------------------------------------------------------------------
\* What the result of decode depends on
\* ------------------------------------------------------------------------
\* C30: two decoders that have the same key and the same short_only and were
\* left with different buffers by earlier frames return the same result, the
\* same bytes and the same short_only for the same frame.
C30_LeftoversDoNotMatter ==
    probe.call = "pair"
       => /\ probe.left.key = probe.right.key
          /\ probe.left.short_only = probe.right.short_only
          /\ probe.result[1] = probe.result[2]
          /\ probe.bytes[1] = probe.bytes[2]
          /\ probe.after[1].short_only = probe.after[2].short_only

\* decoders past their first frame whose header_buf differs in the bytes a
\* short prefix is read from decode an intact frame
C30_Witness ==
    /\ probe.call = "pair"
    /\ probe.left.short_only
    /\ Slice(probe.left.header_buf, 0, HEADER_XSS)
          # Slice(probe.right.header_buf, 0, HEADER_XSS)
    /\ probe.intact
    /\ probe.result = << "Ok", "Ok" >>
    /\ Len(probe.bytes[1]) > 0

====
